---- MODULE Spec2Model ----
(***************************************************************************)
(* Model of the systest sequencer (src/systest.py): Sequencer.run, the     *)
(* _TestThread scheduler and the outcome classification of a test case.    *)
(*                                                                         *)
(* A submitted structure is a tree of records [kind, kids]; kind is        *)
(* "test" (a TestCase instance), "list" (serial) or "tuple" (parallel).    *)
(* A node is named by its path: <<k>> is list(tests) of the k-th run()     *)
(* call, <<k, i>> its i-th argument, and so on.  Every node that is        *)
(* dispatched gets one _TestThread, so threads are named by paths too.     *)
(* What setup(), run(), teardown() and dry_run() of a test case do is      *)
(* chosen when the engine invokes them.                                    *)
(***************************************************************************)
EXTENDS Integers, Sequences, FiniteSets, TLC

\* ------------------------------------------------------------------ bounds
\* Every structure of at most MaxNodes nodes (test cases and groups) is passed
\* to run(), next to the sequences of the repository's tests (SuitePrograms).
\* In the structures of at most MaxVaried nodes nothing is known of the test
\* cases; in the larger ones they override run() only.
MaxNodes == 3
MaxVaried == 2
\* Two run() calls on one sequencer, each passing at most MaxCallNodes nodes.
MaxCallNodes == 1

\* --------------------------------------------------------------- constants
PASSED == "PASSED"
FAILED == "FAILED"
SKIPPED == "SKIPPED"
XPASSED == "XPASSED"
XFAILED == "XFAILED"
None == "None"

Results == {PASSED, FAILED, SKIPPED, XPASSED, XFAILED}

\* Exception classes.  "Exception" stands for every exception class that is
\* none of the three signals below (TestCaseFailedError included).
TestCaseSkippedError == "TestCaseSkippedError"
TestCaseXPassedError == "TestCaseXPassedError"
TestCaseXFailedError == "TestCaseXFailedError"
OtherException == "Exception"

\* Texts of exceptions, str(e).
SkippedByFailure == "Testcase skipped by failure."
DisabledByFilter == "Testcase disabled by filter."
UserText == "text of the error raised by the test case"
XfailText == "message given to xfail"
ParallelFailedText == "At least one of the parallel testcases failed."
UnboundText == "local variable 'execution_time' referenced before assignment"

Exc(type, text) == [type |-> type, text |-> text]
NoExc == Exc(None, None)

\* Test case classes.  "TestCase" is a subclass of which nothing is known:
\* its setup, run, teardown and dry_run may return or raise, and its run may
\* be decorated with xfail.  "RunOnly" is a subclass that overrides run()
\* alone: run may return or raise, the rest is inherited.  NamedTest and
\* FailTest are the classes of tests/testcases: both inherit setup and
\* teardown, NamedTest.run returns and FailTest.run fails an assertion.
Classes == {"TestCase", "RunOnly", "NamedTest", "FailTest"}

UserExcs == {Exc(OtherException, UserText), Exc(TestCaseSkippedError, UserText)}
SignalExcs == {Exc(TestCaseXPassedError, UserText), Exc(TestCaseXFailedError, UserText)}

\* What test.setup() may do: return (NoExc) or raise.
SetupOutcomes(cls) ==
    IF cls = "TestCase" THEN {NoExc} \cup UserExcs \cup SignalExcs ELSE {NoExc}

\* May run() be decorated with xfail, and what the undecorated body may do.
Decorations(cls) == IF cls = "TestCase" THEN BOOLEAN ELSE {FALSE}

BodyOutcomes(cls) ==
    IF cls \in {"TestCase", "RunOnly"} THEN {NoExc} \cup UserExcs
    ELSE IF cls = "FailTest" THEN {Exc(OtherException, UserText)}
    ELSE {NoExc}

\* What test.teardown() may do.
TeardownOutcomes(cls) ==
    IF cls = "TestCase" THEN {NoExc} \cup UserExcs ELSE {NoExc}

\* Estimates a dry_run() may return, and the one tick to which a measured
\* wall-clock difference finish_time - start_time is abstracted.
DryTimes == {0, 2}
WallClock == {1}
\* time.time() at the end of run_test: seconds since the epoch, abstracted to
\* one value above every sum of durations.
Now == 1000

\* execution_time: None, and the local of run_test before its first assignment.
NoTime == 0 - 1
Unbound == 0 - 2

\* NamedTest(name, work_time) with the work times 0.1 s, 1.4 s and 3.2 s, in
\* tenths of a second: dry_run() returns work_time.
WorkTime == [Work1 |-> 1, Work14 |-> 14, Work32 |-> 32]

\* What test.dry_run() may do: return an estimate (type None, the estimate in
\* text; NoTime for a returned None) or raise.
DryOutcomes(cls) ==
    IF cls = "TestCase"
    THEN [type : {None}, text : DryTimes \cup {NoTime}] \cup {Exc(OtherException, UserText)}
    ELSE IF cls = "NamedTest" THEN [type : {None}, text : DryTimes]
    ELSE IF cls \in DOMAIN WorkTime THEN [type : {None}, text : {WorkTime[cls]}]
    ELSE [type : {None}, text : {0}]

\* Test case names and the configured pattern: names are sequences of
\* characters, the pattern is a literal.
Names == {<<"b", "a">>, <<"b">>}
NoPattern == [given |-> FALSE, re |-> <<>>]
Patterns == {NoPattern, [given |-> TRUE, re |-> <<"a">>]}
Unread == <<>>

\* ---------------------------------------------------------- structures
\* T(cls) is an instance of cls created in the argument list, O(cls, k) the
\* instance the caller holds in its k-th variable and may pass again (obj k).
T(cls) == [kind |-> "test", cls |-> cls, kids |-> <<>>, obj |-> 0]
O(cls, k) == [kind |-> "test", cls |-> cls, kids |-> <<>>, obj |-> k]
L(kids) == [kind |-> "list", cls |-> "-", kids |-> kids, obj |-> 0]
P(kids) == [kind |-> "tuple", cls |-> "-", kids |-> kids, obj |-> 0]

\* The structures of exactly n nodes, and the sequences of structures of n
\* nodes in all, of test cases of class cls.
RECURSIVE Trees(_, _), Forests(_, _)
Trees(n, cls) ==
    IF n = 1
    THEN {T(cls), L(<<>>), P(<<>>)}
    ELSE {L(f) : f \in Forests(n - 1, cls)} \cup {P(f) : f \in Forests(n - 1, cls)}

Forests(n, cls) ==
    IF n = 0
    THEN {<<>>}
    ELSE UNION {{<<t>> \o f : t \in Trees(k, cls), f \in Forests(n - k, cls)} : k \in 1..n}

\* list(tests) of one run() call, for every argument list of at most
\* MaxNodes nodes.
SmallPrograms ==
    {<<L(f)>> : f \in UNION {Forests(n, "TestCase") : n \in 0..MaxVaried}}
        \cup {<<L(f)>> : f \in UNION {Forests(n, "RunOnly") : n \in 0..MaxNodes}}

\* Sequences the repository's tests and the specification's scenarios run.
N == T("NamedTest")
F == T("FailTest")
G == T("TestCase")
SuitePrograms ==
    { <<L(<<F, N, P(<<F, N>>)>>)>>,                 \* test_continue_on_failure
      <<L(<<F, N, L(<<F, N>>)>>)>>,                 \* stop-on-failure scenario
      <<L(<<P(<<F, N>>)>>)>>,                       \* test_force_serial_execution
      <<L(<<P(<<P(<<N, F>>), L(<<F, L(<<N>>)>>)>>), L(<<N>>), N>>)>>,  \* test_serial_parallel, in part
      <<L(<<F, P(<<N, F>>), L(<<N>>)>>)>>,
      <<L(<<F, P(<<F, L(<<N>>)>>)>>)>>,
      <<L(<<P(<<G, G>>), N>>)>>,
      <<L(<<P(<<G, N>>), L(<<N>>)>>)>>,
      <<L(<<G, L(<<L(<<N>>), N>>)>>)>>,
      <<L(<<L(<<F>>), L(<<N>>)>>)>>,
      <<L(<<N, G, N>>)>>,
      <<L(<<P(<<T("Work14"), T("Work32"), T("Work1")>>), N>>)>> }    \* critical-path scenario

\* list(tests) of two run() calls on the same sequencer.
TwoCallPrograms ==
    {<<L(f), L(g)>> : f, g \in UNION {Forests(n, "TestCase") : n \in 0..MaxCallNodes}}

\* Sequences of run() calls: those made by the repository's tests, and a
\* parallel group passed to a second call.
SuiteTwoCallPrograms ==
    { <<L(<<F>>), L(<<N>>)>>,                       \* test_cleanup
      <<L(<<L(<<N, N>>)>>), L(<<L(<<N, N>>)>>)>>,   \* test_execute_test_twice_two_run
      <<L(<<F, N>>), L(<<N, F, N>>)>>,
      <<L(<<F>>), L(<<P(<<N, N>>)>>)>> }

\* One test case instance passed to two run() calls.
ReusePrograms ==
    { <<L(<<O("TestCase", 1)>>), L(<<O("TestCase", 1)>>)>>,
      <<L(<<N, O("NamedTest", 1)>>), L(<<N, O("NamedTest", 1)>>)>>,
      <<L(<<F, O("NamedTest", 1)>>), L(<<F, L(<<O("NamedTest", 1)>>)>>)>>,
      <<L(<<P(<<O("Work1", 1), O("Work1", 1)>>)>>)>> }

Programs ==
    SmallPrograms \cup SuitePrograms \cup TwoCallPrograms \cup SuiteTwoCallPrograms
        \cup ReusePrograms

\* The sequences run by a sequencer with a name filter as well as by one
\* without.
FilteredPrograms == SmallPrograms \cup TwoCallPrograms \cup ReusePrograms

RECURSIVE PathsOf(_, _)
PathsOf(t, pre) ==
    {pre} \cup UNION {PathsOf(t.kids[i], Append(pre, i)) : i \in 1..Len(t.kids)}

RECURSIVE Walk(_, _)
Walk(t, q) == IF q = <<>> THEN t ELSE Walk(t.kids[Head(q)], Tail(q))

\* ------------------------------------------------------------------- state
VARIABLES
    prog,    \* the argument lists of the run() calls the caller makes, one tree each
    cfg,     \* Sequencer constructor arguments: dry_run, force_serial_execution, testcase_pattern
    sq,      \* Sequencer fields: continue_on_failure, run_failed, tests
    phase,   \* where the caller of Sequencer.run is: "idle" or "joining"
    ncall,   \* number of run() calls made so far
    rets,    \* the values the run() calls returned, in order
    pc,      \* per thread: position in _TestThread.run
    tres,    \* per thread: _TestThread.result
    idx,     \* per thread: position of the for loops of the group runners
    prev,    \* per thread: prev_test_failed of run_sequential_tests
    exc,     \* per thread: the exception in flight, then the one that left run()
    loc,     \* per test thread: what run_test has seen so far (frame of run_test)
    tc,      \* per test case: result, message, execution_time, name, finish_time,
             \* parents, start_parent (leaves that hold the same instance carry
             \* the same fields)
    calls,   \* per submitted test case: how often its thread invoked setup, run,
             \* teardown, dry_run
    dg,      \* the last dot_digraph() call: how it ended, its begin and end
             \* nodes, its edges, and the deps and nodes it emitted
    rpt      \* what report_and_exit() left: the testcases of the JSON report
             \* and the exit code, or the exception that ended it

vars == <<prog, cfg, sq, phase, ncall, rets, pc, tres, idx, prev, exc, loc, tc, calls, dg, rpt>>

NodeAt(p) == Walk(prog[Head(p)], Tail(p))
Kind(p) == NodeAt(p).kind
Class(p) == NodeAt(p).cls
NKids(p) == Len(NodeAt(p).kids)
Kid(p, i) == Append(p, i)
Kids(p) == {Kid(p, i) : i \in 1..NKids(p)}
\* Do the leaves l and m hold the same TestCase instance?
SameInstance(l, m) == l = m \/ (NodeAt(l).obj # 0 /\ NodeAt(l).obj = NodeAt(m).obj)
Paths == DOMAIN pc
Leaves == DOMAIN tc
Root(k) == <<k>>
IsPrefix(p, q) == Len(p) <= Len(q) /\ SubSeq(q, 1, Len(p)) = p
\* The test cases contained, at any depth, in node p.
LeavesIn(p) == {l \in Leaves : IsPrefix(p, l)}

NotCalled == Exc("-", "-")
FreshLoc == [setup |-> NotCalled, wrapped |-> FALSE, body |-> NotCalled, td |-> NotCalled,
             et |-> Unbound]
\* No test case: the value None of start_parent.
NoParent == <<>>
FreshTestCase == [result |-> None, message |-> None, execution_time |-> NoTime, name |-> Unread,
                  finish_time |-> NoTime, parents |-> <<>>, start_parent |-> NoParent]
\* The attributes of a test case that dot_digraph reads and writes.
Attrs(t) == [result |-> t.result, execution_time |-> t.execution_time,
             finish_time |-> t.finish_time, parents |-> t.parents,
             start_parent |-> t.start_parent]
\* No dot_digraph() call has been made. A call leaves behind its outcome, its
\* begin and end, the edges, the lines of the text, and the self.tests it
\* walked.
NoGraph == [status |-> "none", begin |-> Attrs(FreshTestCase), end |-> Attrs(FreshTestCase),
            edges |-> <<>>, deps |-> <<>>, nodes |-> <<>>, tests |-> <<>>]
NoCalls == [setup |-> 0, run |-> 0, teardown |-> 0, dry_run |-> 0]
\* report_and_exit() has not been called.
NoReport == [testcases |-> <<>>, status |-> "none", exit_code |-> None]

AllPaths(pr) == UNION {PathsOf(pr[k], <<k>>) : k \in 1..Len(pr)}

Init ==
    /\ prog \in Programs
    /\ cfg \in [dry_run : BOOLEAN, force_serial_execution : BOOLEAN,
                testcase_pattern : Patterns]
    /\ cfg.testcase_pattern.given => prog \in FilteredPrograms
    /\ sq = [continue_on_failure |-> TRUE, run_failed |-> FALSE, tests |-> <<>>]
    /\ phase = "idle"
    /\ ncall = 0
    /\ rets = <<>>
    /\ pc = [p \in AllPaths(prog) |-> "new"]
    /\ tres = [p \in AllPaths(prog) |-> None]
    /\ idx = [p \in AllPaths(prog) |-> 0]
    /\ prev = [p \in AllPaths(prog) |-> FALSE]
    /\ exc = [p \in AllPaths(prog) |-> NoExc]
    /\ loc = [p \in {q \in AllPaths(prog) : Walk(prog[Head(q)], Tail(q)).kind = "test"} |-> FreshLoc]
    /\ tc = [p \in DOMAIN loc |-> FreshTestCase]
    /\ calls = [p \in DOMAIN loc |-> NoCalls]
    /\ dg = NoGraph
    /\ rpt = NoReport

\* ------------------------------------------------------- pure functions
\* re.search(pattern, name) for a literal pattern: the pattern occurs in name.
Search(pattern, name) ==
    \E i \in 1..(Len(name) - Len(pattern) + 1) :
        SubSeq(name, i, i + Len(pattern) - 1) = pattern

\* Mutant of is_testcase_enabled: the pattern is not consulted.
is_testcase_enabled_Always(pattern, name) == TRUE

\* Sequencer.is_testcase_enabled: enabled if no pattern is configured or the
\* pattern is found in the name.
is_testcase_enabled(pattern, name) ==
    IF ~pattern.given THEN TRUE ELSE Search(pattern.re, name)

\* Mutant of xfail: the except TestCaseSkippedError clause is missing.
xfail_NoSkipClause(body) ==
    IF body.type # None
    THEN Exc(TestCaseXFailedError, XfailText)
    ELSE Exc(TestCaseXPassedError, XfailText)

\* The xfail decorator: what the wrapper raises, given what the wrapped body did.
xfail(body) ==
    IF body.type = TestCaseSkippedError THEN body
    ELSE IF body.type # None THEN Exc(TestCaseXFailedError, XfailText)
    ELSE Exc(TestCaseXPassedError, XfailText)

\* Mutant of AfterSetup: setup() moved inside the try, so that the finally
\* clause runs teardown() after a failed setup.
AfterSetup_InsideTry(raised) == IF raised.type = None THEN "run" ELSE "teardown"

\* run_test_normal after test.setup(): run() is called only if setup returned.
AfterSetup(raised) == IF raised.type = None THEN "run" ELSE "complete"

\* Mutant of AfterRun: teardown() called after run() without try/finally.
AfterRun_NoFinally(raised) == IF raised.type = None THEN "teardown" ELSE "complete"

\* run_test_normal after test.run(): the finally clause calls teardown()
\* whatever run() did.
AfterRun(raised) == "teardown"

\* Mutant of Finally: the exception of run() survives a raising teardown().
Finally_KeepsFirst(pending, raised) == IF pending.type # None THEN pending ELSE raised

\* try: test.run() finally: test.teardown(): teardown's exception replaces run's.
Finally(pending, raised) == IF raised.type # None THEN raised ELSE pending

\* Mutant of Classify: the except TestCaseSkippedError clause is missing, the
\* skip signal falls to the last clause.
Classify_NoSkipClause(dry, e) ==
    IF dry
    THEN [result |-> IF e.type = None THEN PASSED ELSE FAILED,
          message |-> None, sets_failed |-> FALSE]
    ELSE IF e.type = None
    THEN [result |-> PASSED, message |-> None, sets_failed |-> FALSE]
    ELSE IF e.type = TestCaseXPassedError
    THEN [result |-> XPASSED, message |-> e.text, sets_failed |-> FALSE]
    ELSE IF e.type = TestCaseXFailedError
    THEN [result |-> XFAILED, message |-> e.text, sets_failed |-> FALSE]
    ELSE [result |-> FAILED, message |-> e.text, sets_failed |-> TRUE]

\* Mutant of Classify: the dry run does not reach result = PASSED.
Classify_DryNotPassed(dry, e) ==
    IF dry
    THEN [result |-> FAILED, message |-> None, sets_failed |-> FALSE]
    ELSE IF e.type = None
    THEN [result |-> PASSED, message |-> None, sets_failed |-> FALSE]
    ELSE IF e.type = TestCaseSkippedError
    THEN [result |-> SKIPPED, message |-> e.text, sets_failed |-> FALSE]
    ELSE IF e.type = TestCaseXPassedError
    THEN [result |-> XPASSED, message |-> e.text, sets_failed |-> FALSE]
    ELSE IF e.type = TestCaseXFailedError
    THEN [result |-> XFAILED, message |-> e.text, sets_failed |-> FALSE]
    ELSE [result |-> FAILED, message |-> e.text, sets_failed |-> TRUE]

\* The except clauses and the tail of the try block of run_test: the local
\* result and message, and whether run_failed is set.
Classify(dry, e) ==
    IF dry
    THEN [result |-> IF e.type = None THEN PASSED ELSE FAILED,
          message |-> None, sets_failed |-> FALSE]
    ELSE IF e.type = None
    THEN [result |-> PASSED, message |-> None, sets_failed |-> FALSE]
    ELSE IF e.type = TestCaseSkippedError
    THEN [result |-> SKIPPED, message |-> e.text, sets_failed |-> FALSE]
    ELSE IF e.type = TestCaseXPassedError
    THEN [result |-> XPASSED, message |-> e.text, sets_failed |-> FALSE]
    ELSE IF e.type = TestCaseXFailedError
    THEN [result |-> XFAILED, message |-> e.text, sets_failed |-> FALSE]
    ELSE [result |-> FAILED, message |-> e.text, sets_failed |-> TRUE]

\* Mutant of ThreadRun: the final except Exception clause is missing.
ThreadRun_NoCatchAll(before, e) ==
    IF e.type = None THEN [result |-> PASSED, exc |-> NoExc]
    ELSE IF e.type = TestCaseSkippedError THEN [result |-> SKIPPED, exc |-> NoExc]
    ELSE IF e.type = TestCaseXPassedError THEN [result |-> XPASSED, exc |-> NoExc]
    ELSE IF e.type = TestCaseXFailedError THEN [result |-> XFAILED, exc |-> NoExc]
    ELSE [result |-> before, exc |-> e]

\* The try statement of _TestThread.run: the result the thread ends with and
\* the exception that leaves run(), given the result set before the try.
ThreadRun(before, e) ==
    IF e.type = None THEN [result |-> PASSED, exc |-> NoExc]
    ELSE IF e.type = TestCaseSkippedError THEN [result |-> SKIPPED, exc |-> NoExc]
    ELSE IF e.type = TestCaseXPassedError THEN [result |-> XPASSED, exc |-> NoExc]
    ELSE IF e.type = TestCaseXFailedError THEN [result |-> XFAILED, exc |-> NoExc]
    ELSE [result |-> before, exc |-> NoExc]

\* Result(): the tally summary_count starts from.
Result == [passed |-> 0, failed |-> 0, skipped |-> 0, xpassed |-> 0, xfailed |-> 0,
           total |-> 0]

\* Mutant of summary_test: only a SKIPPED result counts as skipped.
summary_test_OnlySkipped(p, result) ==
    LET r == tc[p].result
        counted ==
            IF r = PASSED THEN [result EXCEPT !.passed = @ + 1]
            ELSE IF r = FAILED THEN [result EXCEPT !.failed = @ + 1]
            ELSE IF r = XPASSED THEN [result EXCEPT !.xpassed = @ + 1]
            ELSE IF r = XFAILED THEN [result EXCEPT !.xfailed = @ + 1]
            ELSE IF r = SKIPPED THEN [result EXCEPT !.skipped = @ + 1]
            ELSE result
    IN [counted EXCEPT !.total = @ + 1]

\* test(test, result) of summary_count: count one test case under its result;
\* every result that is none of the four others counts as skipped.
summary_test(p, result) ==
    LET r == tc[p].result
        counted ==
            IF r = PASSED THEN [result EXCEPT !.passed = @ + 1]
            ELSE IF r = FAILED THEN [result EXCEPT !.failed = @ + 1]
            ELSE IF r = XPASSED THEN [result EXCEPT !.xpassed = @ + 1]
            ELSE IF r = XFAILED THEN [result EXCEPT !.xfailed = @ + 1]
            ELSE [result EXCEPT !.skipped = @ + 1]
    IN [counted EXCEPT !.total = @ + 1]

\* recursivly / sequential_tests / parallel_tests of summary_count: walk the
\* elements ps[i..] in order, threading the tally through.
RECURSIVE summary_recursivly(_, _), summary_tests(_, _, _)
summary_recursivly(p, result) ==
    IF Kind(p) = "test"
    THEN summary_test(p, result)
    ELSE summary_tests([k \in 1..NKids(p) |-> Kid(p, k)], 1, result)

summary_tests(ps, i, result) ==
    IF i > Len(ps)
    THEN result
    ELSE summary_tests(ps, i + 1, summary_recursivly(ps[i], result))

\* Sequencer.summary_count: self.tests is a list.
summary_count == summary_tests(sq.tests, 1, Result)

\* ----------------------------------------------------------- summary_json
\* humanfriendly.format_timespan: the text of a duration.
format_timespan(t) == <<t, "seconds">>

\* Mutant of summary_json_test: the result is reported as it is, unset or not.
summary_json_test_AsIs(p) ==
    LET summary == [name |-> tc[p].name,
                    result |-> tc[p].result,
                    execution_time |-> IF tc[p].result # None
                                       THEN format_timespan(tc[p].execution_time) ELSE None]
    IN IF tc[p].message # None THEN summary @@ [message |-> tc[p].message] ELSE summary

\* Sequencer.summary_json_test: name, result (SKIPPED for an unset result),
\* execution_time as text (None for an unset result) and, if it is set, the
\* message.  The description lines are left out.
summary_json_test(p) ==
    LET summary == [name |-> tc[p].name,
                    result |-> IF tc[p].result # None THEN tc[p].result ELSE SKIPPED,
                    execution_time |-> IF tc[p].result # None
                                       THEN format_timespan(tc[p].execution_time) ELSE None]
    IN IF tc[p].message # None THEN summary @@ [message |-> tc[p].message] ELSE summary

\* recursivly / sequential_tests / parallel_tests of summary_json: walk the
\* elements ps[i..] in order, appending one entry per test case.
RECURSIVE summary_json_recursivly(_, _), summary_json_tests(_, _, _)
summary_json_recursivly(p, testcases) ==
    IF Kind(p) = "test"
    THEN Append(testcases, summary_json_test(p))
    ELSE summary_json_tests([k \in 1..NKids(p) |-> Kid(p, k)], 1, testcases)

summary_json_tests(ps, i, testcases) ==
    IF i > Len(ps)
    THEN testcases
    ELSE summary_json_tests(ps, i + 1, summary_json_recursivly(ps[i], testcases))

\* Sequencer.summary_json: the testcases of the report; self.tests is a list.
summary_json == summary_json_tests(sq.tests, 1, <<>>)

\* ------------------------------------------------------------ dot_digraph
\* The test cases of self.tests.
SubmittedLeaves == UNION {LeavesIn(sq.tests[i]) : i \in 1..Len(sq.tests)}
\* id(test): the identity of a test case object; begin and end are created by
\* every dot_digraph() call.
BeginId == <<0>>
EndId == <<0, 0>>
Id(l) == IF NodeAt(l).obj = 0 THEN l ELSE <<0, NodeAt(l).obj>>

\* The objects dot_digraph works on: the test cases of self.tests, begin
\* (result PASSED, finish_time 0.0) and end (result PASSED, execution_time
\* 0.0).
BeginNode == [Attrs(FreshTestCase) EXCEPT !.result = PASSED, !.finish_time = 0]
EndNode == [Attrs(FreshTestCase) EXCEPT !.result = PASSED, !.execution_time = 0]
Objects ==
    LET leaves == SubmittedLeaves
    IN (BeginId :> BeginNode) @@ (EndId :> EndNode)
           @@ [i \in {Id(l) : l \in leaves} |-> Attrs(tc[CHOOSE l \in leaves : Id(l) = i])]

\* get_start_parent: the first parent, in the order of test.parents, whose
\* finish_time exceeds that of every parent before it; None without parents.
RECURSIVE StartParentFrom(_, _, _, _, _)
StartParentFrom(a, ps, i, start_time, start_parent) ==
    IF i > Len(ps) THEN start_parent
    ELSE IF a[ps[i]].finish_time > start_time
    THEN StartParentFrom(a, ps, i + 1, a[ps[i]].finish_time, ps[i])
    ELSE StartParentFrom(a, ps, i + 1, start_time, start_parent)

\* Mutant of get_start_parent: the last parent with the largest finish_time.
RECURSIVE LastStartParentFrom(_, _, _, _, _)
LastStartParentFrom(a, ps, i, start_time, start_parent) ==
    IF i > Len(ps) THEN start_parent
    ELSE IF a[ps[i]].finish_time >= start_time
    THEN LastStartParentFrom(a, ps, i + 1, a[ps[i]].finish_time, ps[i])
    ELSE LastStartParentFrom(a, ps, i + 1, start_time, start_parent)
get_start_parent_Last(a, ps) == LastStartParentFrom(a, ps, 1, 0 - 1, NoParent)

get_start_parent(a, ps) == StartParentFrom(a, ps, 1, 0 - 1, NoParent)

\* A step of the traversal: the objects as they are now, the parents handed
\* on, and the exception raised, if any.
Built(a, out) == [a |-> a, out |-> out, err |-> "none"]
Raised(a, err) == [a |-> a, out |-> <<>>, err |-> err]

\* Mutant of RecordParents: the parents are added to those the test case has.
RecordParents_Appending(a, parents, i) == [a EXCEPT ![i].parents = @ \o parents]

\* test.parents = parents.
RecordParents(a, parents, i) == [a EXCEPT ![i].parents = parents]

\* Mutant of dot_test: a test case that was not executed hands itself on.
dot_test_NotTransparent(a, parents, i) ==
    LET a1 == RecordParents(a, parents, i)
        sp == get_start_parent(a1, parents)
    IN IF a1[i].result = None
       THEN Built(a1, <<i>>)
       ELSE IF \E k \in 1..Len(parents) : a1[parents[k]].finish_time = NoTime
       THEN Raised(a1, "TypeError")
       ELSE IF sp = NoParent
       THEN Raised([a1 EXCEPT ![i].start_parent = sp], "AttributeError")
       ELSE IF a1[i].execution_time = NoTime
       THEN Raised([a1 EXCEPT ![i].start_parent = sp], "TypeError")
       ELSE Built([a1 EXCEPT ![i].start_parent = sp,
                             ![i].finish_time = a1[sp].finish_time + a1[i].execution_time],
                  <<i>>)

\* _test of dot_digraph: record the parents; an executed test case gets its
\* start_parent and finish_time and is handed on, another hands its parents
\* on. Comparing or adding None raises TypeError; without parents
\* start_parent is None and reading its finish_time raises AttributeError.
dot_test(a, parents, i) ==
    LET a1 == RecordParents(a, parents, i)
        sp == get_start_parent(a1, parents)
    IN IF a1[i].result = None
       THEN Built(a1, parents)
       ELSE IF \E k \in 1..Len(parents) : a1[parents[k]].finish_time = NoTime
       THEN Raised(a1, "TypeError")
       ELSE IF sp = NoParent
       THEN Raised([a1 EXCEPT ![i].start_parent = sp], "AttributeError")
       ELSE IF a1[i].execution_time = NoTime
       THEN Raised([a1 EXCEPT ![i].start_parent = sp], "TypeError")
       ELSE Built([a1 EXCEPT ![i].start_parent = sp,
                             ![i].finish_time = a1[sp].finish_time + a1[i].execution_time],
                  <<i>>)

\* recursivly, sequential_tests, parallel_tests of dot_digraph: thread the
\* parents through the elements of a list, and hand the parents of a tuple to
\* each of its elements, concatenating what they hand on (_flatten).
RECURSIVE digraph_recursivly(_, _, _), digraph_sequential_tests(_, _, _, _),
          digraph_parallel_tests(_, _, _, _, _)
\* Mutant of digraph_recursivly: a tuple is threaded like a list.
digraph_recursivly_Threaded(a, parents, p) ==
    IF Kind(p) = "test" THEN dot_test(a, parents, Id(p))
    ELSE digraph_sequential_tests(a, parents, [k \in 1..NKids(p) |-> Kid(p, k)], 1)

digraph_recursivly(a, parents, p) ==
    IF Kind(p) = "test" THEN dot_test(a, parents, Id(p))
    ELSE IF Kind(p) = "list"
    THEN digraph_sequential_tests(a, parents, [k \in 1..NKids(p) |-> Kid(p, k)], 1)
    ELSE digraph_parallel_tests(a, parents, [k \in 1..NKids(p) |-> Kid(p, k)], 1, <<>>)

digraph_sequential_tests(a, parents, tests, i) ==
    IF i > Len(tests) THEN Built(a, parents)
    ELSE LET r == digraph_recursivly(a, parents, tests[i])
         IN IF r.err # "none" THEN r
            ELSE digraph_sequential_tests(r.a, r.out, tests, i + 1)

digraph_parallel_tests(a, parents, tests, i, flat) ==
    IF i > Len(tests) THEN Built(a, flat)
    ELSE LET r == digraph_recursivly(a, parents, tests[i])
         IN IF r.err # "none" THEN r
            ELSE digraph_parallel_tests(r.a, parents, tests, i + 1, flat \o r.out)

\* The main loop of dot_digraph: for test in self.tests + [end], starting
\* with parents = [begin].
Traversal ==
    LET body == digraph_sequential_tests(Objects, <<BeginId>>, sq.tests, 1)
    IN IF body.err # "none" THEN body ELSE dot_test(body.a, body.out, EndId)

\* sorted(parents, key=finish_time, reverse=True): a stable sort, so parents
\* with equal finish_time keep their order.
RECURSIVE sorted(_, _)
sorted(a, ps) ==
    IF ps = <<>> THEN <<>>
    ELSE LET m == CHOOSE k \in 1..Len(ps) :
                      /\ \A j \in 1..Len(ps) : a[ps[j]].finish_time <= a[ps[k]].finish_time
                      /\ \A j \in 1..(k - 1) : a[ps[j]].finish_time < a[ps[k]].finish_time
         IN <<ps[m]>> \o sorted(a, SubSeq(ps, 1, m - 1) \o SubSeq(ps, m + 1, Len(ps)))

\* Mutant of edge_name: the key is made of the names, here of the ids of the
\* first test cases of self.tests that have the names of parent and test.
edge_name_ByName(parent, test) ==
    LET first(i) ==
            IF i \in {BeginId, EndId} THEN i
            ELSE LET name == tc[CHOOSE l \in SubmittedLeaves : Id(l) = i].name
                     same == {l \in SubmittedLeaves : tc[l].name = name}
                 IN Id(CHOOSE l \in same : \A m \in same : Len(l) <= Len(m))
    IN <<first(parent), first(test)>>

\* edge_name(parent, test): the key of an edge, made of the two ids.
edge_name(parent, test) == <<parent, test>>

\* Mutant of EdgeStyle: the style of the walk is handed on unchanged.
EdgeStyle_Inherited(style, start_parent, parent) == style

\* The style edges_recursivly gives the edge from parent: bold if the walk is
\* bold and parent is the start_parent of the test, solid otherwise.
EdgeStyle(style, start_parent, parent) ==
    IF style = "bold" /\ start_parent = parent THEN "bold" ELSE "solid"

\* edges_recursivly: walk the parents of test, slowest first, skipping the
\* edges that exist, and continue from each parent with the style of its edge.
RECURSIVE edges_recursivly(_, _, _, _), edges_parents(_, _, _, _, _, _)
edges_recursivly(edges, a, test, style) ==
    edges_parents(edges, a, test, style, sorted(a, a[test].parents), 1)

edges_parents(edges, a, test, style, ps, i) ==
    IF i > Len(ps) THEN edges
    ELSE IF edge_name(ps[i], test) \in DOMAIN edges
    THEN edges_parents(edges, a, test, style, ps, i + 1)
    ELSE LET s == EdgeStyle(style, a[test].start_parent, ps[i])
             added == edges @@ (edge_name(ps[i], test) :> s)
         IN edges_parents(edges_recursivly(added, a, ps[i], s), a, test, style, ps, i + 1)

\* The test cases of the elements tests[i..], in the order the recursive
\* walks of dot_digraph visit them.
RECURSIVE walk_recursivly(_), walk_tests(_, _)
walk_recursivly(p) ==
    IF Kind(p) = "test" THEN <<p>>
    ELSE walk_tests([k \in 1..NKids(p) |-> Kid(p, k)], 1)
walk_tests(tests, i) ==
    IF i > Len(tests) THEN <<>>
    ELSE walk_recursivly(tests[i]) \o walk_tests(tests, i + 1)

\* str(Edge): the ids of parent and test, the finish_time of the parent as
\* label, the style.
EdgeText(edges, a, parent, test) ==
    [parent |-> parent, test |-> test, label |-> a[parent].finish_time,
     style |-> edges[edge_name(parent, test)]]

\* deps_test: the edges from the parents of an executed test case, in the
\* order of test.parents.
deps_test(edges, a, i) ==
    IF a[i].result = None THEN <<>>
    ELSE [k \in 1..Len(a[i].parents) |-> EdgeText(edges, a, a[i].parents[k], i)]

\* edges[edge_name(parent, test)] raises KeyError for an edge that the walk
\* from end did not create.
MissingEdge(edges, a, i) ==
    /\ a[i].result # None
    /\ \E k \in 1..Len(a[i].parents) : edge_name(a[i].parents[k], i) \notin DOMAIN edges

\* The objects deps_recursivly visits: for test in [begin] + self.tests + [end].
DepsOrder ==
    LET w == walk_tests(sq.tests, 1)
    IN <<BeginId>> \o [k \in 1..Len(w) |-> Id(w[k])] \o <<EndId>>

RECURSIVE deps_tests(_, _, _, _)
deps_tests(edges, a, order, i) ==
    IF i > Len(order) THEN <<>>
    ELSE deps_test(edges, a, order[i]) \o deps_tests(edges, a, order, i + 1)

\* nodes_test: one node per position of self.tests, made of id and name.
nodes_test(p) == [id |-> Id(p), label |-> tc[p].name]
nodes_tests == LET w == walk_tests(sq.tests, 1) IN [k \in 1..Len(w) |-> nodes_test(w[k])]

\* Sequencer.dot_digraph: what the call leaves behind.
dot_digraph ==
    LET t == Traversal
        edges == edges_recursivly(<<>>, t.a, EndId, "bold")
    IN IF t.err # "none"
       THEN [a |-> t.a, dg |-> [NoGraph EXCEPT !.status = t.err, !.tests = sq.tests]]
       ELSE IF \E k \in 1..Len(DepsOrder) : MissingEdge(edges, t.a, DepsOrder[k])
       THEN [a |-> t.a, dg |-> [NoGraph EXCEPT !.status = "KeyError", !.edges = edges,
                                               !.tests = sq.tests]]
       ELSE [a |-> t.a,
             dg |-> [status |-> "built",
                     begin |-> t.a[BeginId], end |-> t.a[EndId],
                     edges |-> edges,
                     deps |-> deps_tests(edges, t.a, DepsOrder, 1),
                     nodes |-> nodes_tests,
                     tests |-> sq.tests]]

\* ----------------------------------------------------------------- actions
\* Mutant of RunCall: run_failed is not reset.
RunCall_KeepsLatch(cof) ==
    /\ phase = "idle"
    /\ ncall < Len(prog)
    /\ ncall' = ncall + 1
    /\ sq' = [continue_on_failure |-> cof,
              run_failed |-> sq.run_failed,
              tests |-> sq.tests \o [i \in 1..NKids(Root(ncall + 1)) |-> Kid(Root(ncall + 1), i)]]
    /\ pc' = [pc EXCEPT ![Root(ncall + 1)] = "ready"]
    /\ phase' = "joining"
    /\ UNCHANGED <<rpt, dg, prog, cfg, rets, tres, idx, prev, exc, loc, tc, calls>>

\* Mutant of RunCall: self.tests is replaced, not extended.
RunCall_ReplacesTests(cof) ==
    /\ phase = "idle"
    /\ ncall < Len(prog)
    /\ ncall' = ncall + 1
    /\ sq' = [continue_on_failure |-> cof,
              run_failed |-> FALSE,
              tests |-> [i \in 1..NKids(Root(ncall + 1)) |-> Kid(Root(ncall + 1), i)]]
    /\ pc' = [pc EXCEPT ![Root(ncall + 1)] = "ready"]
    /\ phase' = "joining"
    /\ UNCHANGED <<rpt, dg, prog, cfg, rets, tres, idx, prev, exc, loc, tc, calls>>

\* Sequencer.run up to thread.join(): the k-th call passes prog[k].
RunCall(cof) ==
    /\ phase = "idle"
    /\ ncall < Len(prog)
    /\ ncall' = ncall + 1
    /\ sq' = [continue_on_failure |-> cof,
              run_failed |-> FALSE,
              tests |-> sq.tests \o [i \in 1..NKids(Root(ncall + 1)) |-> Kid(Root(ncall + 1), i)]]
    /\ pc' = [pc EXCEPT ![Root(ncall + 1)] = "ready"]
    /\ phase' = "joining"
    /\ UNCHANGED <<rpt, dg, prog, cfg, rets, tres, idx, prev, exc, loc, tc, calls>>

\* Sequencer.run from thread.join() on: returns summary_count().
RunReturn ==
    /\ phase = "joining"
    /\ pc[Root(ncall)] = "done"
    /\ rets' = Append(rets, summary_count)
    /\ phase' = "idle"
    /\ UNCHANGED <<rpt, dg, prog, cfg, sq, ncall, pc, tres, idx, prev, exc, loc, tc, calls>>

\* Sequencer.dot_digraph, called between run() calls: it leaves parents,
\* start_parent and finish_time on the test case objects.
DotDigraph ==
    /\ phase = "idle"
    /\ ncall >= 1
    /\ \E r \in {dot_digraph} :
         /\ dg' = r.dg
         /\ tc' = [l \in DOMAIN tc |->
                     IF Id(l) \in DOMAIN r.a
                     THEN [tc[l] EXCEPT !.finish_time = r.a[Id(l)].finish_time,
                                        !.parents = r.a[Id(l)].parents,
                                        !.start_parent = r.a[Id(l)].start_parent]
                     ELSE tc[l]]
    /\ UNCHANGED <<prog, cfg, sq, phase, ncall, rets, pc, tres, idx, prev, exc, loc, calls, rpt>>

\* report_and_exit: exit_code = 1 if self.run_failed else 0.
exit_code(run_failed) == IF run_failed THEN 1 ELSE 0

\* Sequencer.report_and_exit, called between run() calls: report() logs the
\* summary, writes summary_json() to the .json file and dot_digraph() to the
\* .dot file (a failure of the dot program is caught); then sys.exit with
\* the exit code.  An exception of dot_digraph() leaves report_and_exit
\* before an exit code is chosen.
ReportAndExit ==
    /\ phase = "idle"
    /\ ncall >= 1
    /\ \E r \in {dot_digraph} :
         /\ dg' = r.dg
         /\ tc' = [l \in DOMAIN tc |->
                     IF Id(l) \in DOMAIN r.a
                     THEN [tc[l] EXCEPT !.finish_time = r.a[Id(l)].finish_time,
                                        !.parents = r.a[Id(l)].parents,
                                        !.start_parent = r.a[Id(l)].start_parent]
                     ELSE tc[l]]
         /\ rpt' = [testcases |-> summary_json,
                    status |-> IF r.dg.status = "built" THEN "exit" ELSE r.dg.status,
                    exit_code |-> IF r.dg.status = "built"
                                  THEN exit_code(sq.run_failed)
                                  ELSE None]
    /\ phase' = "exited"
    /\ UNCHANGED <<prog, cfg, sq, ncall, rets, pc, tres, idx, prev, exc, loc, calls>>

\* Mutant of SequentialJoined: thread.join() is missing.
SequentialJoined_NoJoin(p) == TRUE

\* thread.join() in run_sequential_tests returns once the thread of the
\* current element has ended.
SequentialJoined(p) == pc[Kid(p, idx[p])] = "done"

\* Mutants of ParallelJoined: child.join() is missing; the thread joins
\* itself; the join returns as soon as the child is running.
ParallelJoined_NoJoin(p) == TRUE
ParallelJoined_Self(p) == pc[p] = "done"
ParallelJoined_Started(p) == pc[Kid(p, idx[p])] # "new"

\* child.join() in run_parallel_tests returns once the child has ended.
ParallelJoined(p) == pc[Kid(p, idx[p])] = "done"

\* Mutants of SkipsElement: the isinstance(test, list) check is missing; the
\* element after a failed one is never skipped; the check is
\* isinstance(test, (list, tuple)).
SkipsElement_AnyKind(prev_test_failed, kind) == prev_test_failed
SkipsElement_Never(prev_test_failed, kind) == FALSE
SkipsElement_Groups(prev_test_failed, kind) == prev_test_failed /\ kind # "test"

\* run_sequential_tests: the element after a failed one is skipped (continue)
\* if it is a list.
SkipsElement(prev_test_failed, kind) == prev_test_failed /\ kind = "list"

\* Mutant of RunsSequential: force_serial_execution is not read.
RunsSequential_ListsOnly(p) == Kind(p) = "list"

\* Does run_tests hand node p to run_sequential_tests?
RunsSequential(p) ==
    \/ Kind(p) = "list"
    \/ Kind(p) = "tuple" /\ cfg.force_serial_execution

\* Mutants of MaySetup: the else branch does not read run_failed; the else
\* branch always raises the skip.
MaySetup_NoLatch(continue_on_failure, run_failed) == TRUE
MaySetup_OnlyFlag(continue_on_failure, run_failed) == continue_on_failure
\* Another: run_failed is consulted whatever continue_on_failure is.
MaySetup_AlwaysLatch(continue_on_failure, run_failed) == ~run_failed

\* run_test_normal, for an enabled test case: it is set up if
\* continue_on_failure is true, or else if run_failed is not set.
MaySetup(continue_on_failure, run_failed) == continue_on_failure \/ ~run_failed

\* _TestThread.run of a test case, down to run_test_normal's decision: the
\* header (which reads test.name), the dry run, the filter, the failure latch.
BeginTest(p) ==
    /\ pc[p] = "ready"
    /\ Kind(p) = "test"
    /\ tres' = [tres EXCEPT ![p] = FAILED]
    /\ UNCHANGED <<rpt, dg, prog, cfg, sq, phase, ncall, rets, idx, prev>>
    /\ \E n \in (IF tc[p].name # Unread THEN {tc[p].name}
                 ELSE IF cfg.testcase_pattern.given THEN Names ELSE {Unread}) :
         /\ tc' = [q \in DOMAIN tc |->
                     IF SameInstance(q, p) THEN [tc[q] EXCEPT !.name = n] ELSE tc[q]]
         /\ IF cfg.dry_run
            THEN /\ \E o \in DryOutcomes(Class(p)) :
                      /\ exc' = [exc EXCEPT ![p] = IF o.type = None THEN NoExc ELSE o]
                      /\ loc' = [loc EXCEPT ![p].et = IF o.type = None THEN o.text ELSE Unbound]
                 /\ calls' = [calls EXCEPT ![p].dry_run = @ + 1]
                 /\ pc' = [pc EXCEPT ![p] = "complete"]
            ELSE /\ loc' = [loc EXCEPT ![p].et = NoTime]
                 /\ calls' = calls
                 /\ IF ~is_testcase_enabled(cfg.testcase_pattern, n)
                    THEN /\ exc' = [exc EXCEPT ![p] = Exc(TestCaseSkippedError, DisabledByFilter)]
                         /\ pc' = [pc EXCEPT ![p] = "complete"]
                    ELSE IF MaySetup(sq.continue_on_failure, sq.run_failed)
                    THEN /\ exc' = exc
                         /\ pc' = [pc EXCEPT ![p] = "setup"]
                    ELSE /\ exc' = [exc EXCEPT ![p] = Exc(TestCaseSkippedError, SkippedByFailure)]
                         /\ pc' = [pc EXCEPT ![p] = "complete"]

\* test.setup()
Setup(p) ==
    /\ pc[p] = "setup"
    /\ calls' = [calls EXCEPT ![p].setup = @ + 1]
    /\ \E o \in SetupOutcomes(Class(p)) :
         /\ loc' = [loc EXCEPT ![p].setup = o]
         /\ exc' = [exc EXCEPT ![p] = o]
         /\ pc' = [pc EXCEPT ![p] = AfterSetup(o)]
    /\ UNCHANGED <<rpt, dg, prog, cfg, sq, phase, ncall, rets, tres, idx, prev, tc>>

\* test.run(), decorated with xfail or not
Run(p) ==
    /\ pc[p] = "run"
    /\ calls' = [calls EXCEPT ![p].run = @ + 1]
    /\ \E w \in Decorations(Class(p)), b \in BodyOutcomes(Class(p)) :
         /\ loc' = [loc EXCEPT ![p].wrapped = w, ![p].body = b]
         /\ exc' = [exc EXCEPT ![p] = IF w THEN xfail(b) ELSE b]
         /\ pc' = [pc EXCEPT ![p] = AfterRun(IF w THEN xfail(b) ELSE b)]
    /\ UNCHANGED <<rpt, dg, prog, cfg, sq, phase, ncall, rets, tres, idx, prev, tc>>

\* finally: test.teardown()
Teardown(p) ==
    /\ pc[p] = "teardown"
    /\ calls' = [calls EXCEPT ![p].teardown = @ + 1]
    /\ \E o \in TeardownOutcomes(Class(p)) :
         /\ loc' = [loc EXCEPT ![p].td = o]
         /\ exc' = [exc EXCEPT ![p] = Finally(exc[p], o)]
    /\ pc' = [pc EXCEPT ![p] = "complete"]
    /\ UNCHANGED <<rpt, dg, prog, cfg, sq, phase, ncall, rets, tres, idx, prev, tc>>

\* Mutant of ExecutionTimes: the wall clock is always used.
ExecutionTimes_Measured(et) == WallClock

\* The finally block of run_test: the local execution_time is replaced by the
\* measured time if it is None.
ExecutionTimes(et) == IF et = NoTime THEN WallClock ELSE {et}

\* run_test from the except clauses to the end of its finally block.
Complete(p) ==
    /\ pc[p] = "complete"
    /\ LET c == Classify(cfg.dry_run, exc[p])
       IN /\ sq' = [sq EXCEPT !.run_failed = IF c.sets_failed THEN TRUE ELSE @]
          /\ IF loc[p].et = Unbound
             THEN /\ exc' = [exc EXCEPT ![p] = Exc(OtherException, UnboundText)]
                  /\ tc' = tc
             ELSE /\ exc' = exc
                  /\ \E t \in ExecutionTimes(loc[p].et) :
                       tc' = [q \in DOMAIN tc |->
                                 IF SameInstance(q, p)
                                 THEN [tc[q] EXCEPT !.result = c.result,
                                                    !.message = c.message,
                                                    !.execution_time = t,
                                                    !.finish_time = Now]
                                 ELSE tc[q]]
    /\ pc' = [pc EXCEPT ![p] = "exit"]
    /\ UNCHANGED <<rpt, dg, prog, cfg, phase, ncall, rets, tres, idx, prev, loc, calls>>

\* The except clauses of _TestThread.run for a test case; the thread ends.
ExitTest(p) ==
    /\ pc[p] = "exit"
    /\ tres' = [tres EXCEPT ![p] = ThreadRun(tres[p], exc[p]).result]
    /\ exc' = [exc EXCEPT ![p] = ThreadRun(tres[p], exc[p]).exc]
    /\ loc' = [loc EXCEPT ![p] = FreshLoc]
    /\ pc' = [pc EXCEPT ![p] = "done"]
    /\ UNCHANGED <<rpt, dg, prog, cfg, sq, phase, ncall, rets, idx, prev, tc, calls>>

\* _TestThread.run of a group handed to run_sequential_tests.
BeginSequential(p) ==
    /\ pc[p] = "ready"
    /\ RunsSequential(p)
    /\ tres' = [tres EXCEPT ![p] = FAILED]
    /\ prev' = [prev EXCEPT ![p] = FALSE]
    /\ idx' = [idx EXCEPT ![p] = 1]
    /\ pc' = [pc EXCEPT ![p] = "seq"]
    /\ UNCHANGED <<rpt, dg, prog, cfg, sq, phase, ncall, rets, exc, loc, tc, calls>>

\* Mutant of FlagAfterHead: the flag is cleared after the continue, so it
\* stays set when a list is passed over.
FlagAfterHead_KeptOnSkip(prev_test_failed, kind) == prev_test_failed /\ kind = "list"

\* prev_test_failed after the head of the loop body of run_sequential_tests:
\* it is cleared before the isinstance check, whatever the element is.
FlagAfterHead(prev_test_failed, kind) == FALSE

\* One pass through the head of the for loop of run_sequential_tests: skip
\* the element, or start its thread.
SequentialNext(p) ==
    /\ pc[p] = "seq"
    /\ idx[p] <= NKids(p)
    /\ prev' = [prev EXCEPT ![p] = FlagAfterHead(prev[p], Kind(Kid(p, idx[p])))]
    /\ IF SkipsElement(prev[p], Kind(Kid(p, idx[p])))
       THEN /\ idx' = [idx EXCEPT ![p] = @ + 1]
            /\ pc' = pc
       ELSE /\ idx' = idx
            /\ pc' = [pc EXCEPT ![p] = "seqjoin", ![Kid(p, idx[p])] = "ready"]
    /\ UNCHANGED <<rpt, dg, prog, cfg, sq, phase, ncall, rets, tres, exc, loc, tc, calls>>

\* thread.join() and the check of thread.result in run_sequential_tests.
SequentialJoin(p) ==
    /\ pc[p] = "seqjoin"
    /\ SequentialJoined(p)
    /\ IF tres[Kid(p, idx[p])] = FAILED
       THEN /\ prev' = [prev EXCEPT ![p] = TRUE]
            /\ tres' = [tres EXCEPT ![p] = tres[Kid(p, idx[p])]]
       ELSE UNCHANGED <<prev, tres>>
    /\ idx' = [idx EXCEPT ![p] = @ + 1]
    /\ pc' = [pc EXCEPT ![p] = "seq"]
    /\ UNCHANGED <<rpt, dg, prog, cfg, sq, phase, ncall, rets, exc, loc, tc, calls>>

\* Mutant of SequentialRaises: a failed element makes the runner raise, as
\* run_parallel_tests does.
SequentialRaises_LikeParallel(p) ==
    IF tres[p] = FAILED THEN Exc(OtherException, ParallelFailedText) ELSE NoExc

\* What run_sequential_tests raises after its loop: nothing, it returns.
SequentialRaises(p) == NoExc

\* run_sequential_tests returns; the thread ends.
SequentialDone(p) ==
    /\ pc[p] = "seq"
    /\ idx[p] > NKids(p)
    /\ tres' = [tres EXCEPT ![p] = ThreadRun(tres[p], SequentialRaises(p)).result]
    /\ exc' = [exc EXCEPT ![p] = ThreadRun(tres[p], SequentialRaises(p)).exc]
    /\ idx' = [idx EXCEPT ![p] = 0]
    /\ pc' = [pc EXCEPT ![p] = "done"]
    /\ UNCHANGED <<rpt, dg, prog, cfg, sq, phase, ncall, rets, prev, loc, tc, calls>>

\* _TestThread.run of a tuple handed to run_parallel_tests.
BeginParallel(p) ==
    /\ pc[p] = "ready"
    /\ Kind(p) = "tuple"
    /\ ~RunsSequential(p)
    /\ tres' = [tres EXCEPT ![p] = FAILED]
    /\ idx' = [idx EXCEPT ![p] = IF NKids(p) = 0 THEN 0 ELSE 1]
    /\ pc' = [pc EXCEPT ![p] = IF NKids(p) = 0 THEN "check" ELSE "start"]
    /\ UNCHANGED <<rpt, dg, prog, cfg, sq, phase, ncall, rets, prev, exc, loc, tc, calls>>

\* The first for loop of run_parallel_tests: start the next child.
ParallelStart(p) ==
    /\ pc[p] = "start"
    /\ idx[p] <= NKids(p)
    /\ pc' = [pc EXCEPT ![Kid(p, idx[p])] = "ready",
                        ![p] = IF idx[p] = NKids(p) THEN "join" ELSE "start"]
    /\ idx' = [idx EXCEPT ![p] = IF idx[p] = NKids(p) THEN 1 ELSE @ + 1]
    /\ UNCHANGED <<rpt, dg, prog, cfg, sq, phase, ncall, rets, tres, prev, exc, loc, tc, calls>>

\* The second for loop of run_parallel_tests: child.join().
ParallelJoin(p) ==
    /\ pc[p] = "join"
    /\ idx[p] <= NKids(p)
    /\ ParallelJoined(p)
    /\ pc' = [pc EXCEPT ![p] = IF idx[p] = NKids(p) THEN "check" ELSE "join"]
    /\ idx' = [idx EXCEPT ![p] = IF idx[p] = NKids(p) THEN 0 ELSE @ + 1]
    /\ UNCHANGED <<rpt, dg, prog, cfg, sq, phase, ncall, rets, tres, prev, exc, loc, tc, calls>>

\* Mutant of ParallelRaises: every child that did not pass counts as failed.
ParallelRaises_NotPassed(p) ==
    IF \E c \in Kids(p) : tres[c] # PASSED
    THEN Exc(OtherException, ParallelFailedText)
    ELSE NoExc

\* The third for loop of run_parallel_tests: what it raises, if anything.
ParallelRaises(p) ==
    IF \E c \in Kids(p) : tres[c] = FAILED
    THEN Exc(OtherException, ParallelFailedText)
    ELSE NoExc

\* run_parallel_tests raises or returns; the thread ends.
ParallelDone(p) ==
    /\ pc[p] = "check"
    /\ tres' = [tres EXCEPT ![p] = ThreadRun(tres[p], ParallelRaises(p)).result]
    /\ exc' = [exc EXCEPT ![p] = ThreadRun(tres[p], ParallelRaises(p)).exc]
    /\ pc' = [pc EXCEPT ![p] = "done"]
    /\ UNCHANGED <<rpt, dg, prog, cfg, sq, phase, ncall, rets, idx, prev, loc, tc, calls>>

Next ==
    \/ \E cof \in BOOLEAN : RunCall(cof)
    \/ RunReturn
    \/ \E p \in Paths : BeginTest(p)
    \/ \E p \in Paths : Setup(p)
    \/ \E p \in Paths : Run(p)
    \/ \E p \in Paths : Teardown(p)
    \/ \E p \in Paths : Complete(p)
    \/ \E p \in Paths : ExitTest(p)
    \/ \E p \in Paths : BeginSequential(p)
    \/ \E p \in Paths : SequentialNext(p)
    \/ \E p \in Paths : SequentialJoin(p)
    \/ \E p \in Paths : SequentialDone(p)
    \/ \E p \in Paths : BeginParallel(p)
    \/ \E p \in Paths : ParallelStart(p)
    \/ \E p \in Paths : ParallelJoin(p)
    \/ \E p \in Paths : ParallelDone(p)
    \/ DotDigraph
    \/ ReportAndExit

Spec == Init /\ [][Next]_vars

\* The steps the threads and the joining caller take on their own; the caller
\* is free never to call run(), dot_digraph() or report_and_exit() again.
Scheduled ==
    \/ RunReturn
    \/ \E p \in Paths : BeginTest(p)
    \/ \E p \in Paths : Setup(p)
    \/ \E p \in Paths : Run(p)
    \/ \E p \in Paths : Teardown(p)
    \/ \E p \in Paths : Complete(p)
    \/ \E p \in Paths : ExitTest(p)
    \/ \E p \in Paths : BeginSequential(p)
    \/ \E p \in Paths : SequentialNext(p)
    \/ \E p \in Paths : SequentialJoin(p)
    \/ \E p \in Paths : SequentialDone(p)
    \/ \E p \in Paths : BeginParallel(p)
    \/ \E p \in Paths : ParallelStart(p)
    \/ \E p \in Paths : ParallelJoin(p)
    \/ \E p \in Paths : ParallelDone(p)

\* WF_vars(Scheduled): a thread that can take a step is eventually scheduled,
\* and every setup, run, teardown and dry_run call finishes.
FairSpec == Init /\ [][Next]_vars /\ WF_vars(Scheduled)

\* ------------------------------------------------------------------ claims
\* The nodes of the structure rooted at node q.
Subtree(q) == {n \in Paths : IsPrefix(q, n)}
\* A thread of the structure rooted at q has been started.
Started(q) == \E n \in Subtree(q) : pc[n] # "new"
\* A thread of the structure rooted at q is started and has not ended.
Running(q) == \E n \in Subtree(q) : pc[n] \notin {"new", "done"}
\* The groups that are run by run_sequential_tests / by run_parallel_tests.
SerialGroups == {p \in Paths : Kind(p) = "list"}
ParallelGroups == {p \in Paths : Kind(p) = "tuple" /\ ~cfg.force_serial_execution}
\* Every run() call the caller makes has returned.
Returned == phase = "idle" /\ ncall = Len(prog)
\* Node p belongs to the run() call that is in progress or was made last:
\* continue_on_failure and run_failed of the sequencer are those of that call.
CurrentCall(p) == Head(p) = ncall
\* The instance of test case l is submitted once: what its fields hold is what
\* the thread of l recorded.
Sole(l) == \A m \in Leaves : SameInstance(l, m) => m = l
\* The attempt of test case l in the current call has been recorded as FAILED.
HasFailed(l) == CurrentCall(l) /\ pc[l] \in {"exit", "done"} /\ tc[l].result = FAILED
\* Test case l has been through setup/run/teardown and its thread has ended.
Executed(l) == pc[l] = "done" /\ calls[l].setup = 1

\* C1: in a Serial group the elements run in submission order, and when a
\* thread of element j has been started, every thread of every earlier
\* element i has ended (or was never started), teardown included, and the
\* result and execution_time of every test case executed in it are recorded.
C1_SerialOrder ==
    \A p \in SerialGroups : \A i, j \in 1..NKids(p) :
        (i < j /\ Started(Kid(p, j))) =>
            /\ ~Running(Kid(p, i))
            /\ \A l \in LeavesIn(Kid(p, i)) :
                 calls[l].setup = 1 =>
                    /\ tc[l].result \in Results
                    /\ tc[l].execution_time # NoTime
                    /\ calls[l].run = 1 => calls[l].teardown = 1

\* Witness of C1: a Serial group nested in a Serial group whose second
\* element is being set up after its first was executed to the end.
C1_Witness ==
    \E p \in SerialGroups :
        /\ Len(p) >= 2
        /\ NKids(p) >= 2
        /\ Kind(Kid(p, 1)) = "test" /\ Kind(Kid(p, 2)) = "test"
        /\ calls[Kid(p, 1)].teardown = 1
        /\ pc[Kid(p, 2)] = "run"

\* C2: with force_serial_execution off, a tuple has started a thread for
\* every child before it joins, it ends only after every child has ended, and
\* the element that follows it in a Serial group is not started while any
\* thread in the tuple is running.
C2_ParallelJoin ==
    \A t \in ParallelGroups :
        /\ pc[t] \in {"join", "check", "done"} => \A c \in Kids(t) : pc[c] # "new"
        /\ pc[t] \in {"check", "done"} => \A c \in Kids(t) : ~Running(c)
        /\ \A p \in SerialGroups : \A i \in 1..NKids(p) :
             (Kid(p, i) = t /\ i < NKids(p) /\ Started(Kid(p, i + 1))) => ~Running(t)

\* Witness of C2: the element after a tuple of two executed test cases is
\* started.
C2_Witness ==
    \E t \in ParallelGroups : \E p \in SerialGroups :
        /\ Kid(p, 1) = t
        /\ NKids(t) = 2
        /\ \A c \in Kids(t) : Kind(c) = "test" /\ Executed(c)
        /\ NKids(p) >= 2
        /\ pc[Kid(p, 2)] = "setup"

\* Witness of C2, the interleaving: both children of a tuple are between
\* setup and the end of their thread at once.
C2_Concurrent ==
    \E t \in ParallelGroups :
        /\ NKids(t) = 2
        /\ \A c \in Kids(t) : Kind(c) = "test" /\ pc[c] = "teardown"

\* C3: no exception leaves the run() of any thread, whatever the test cases
\* raised and whichever tuple raised "At least one of the parallel testcases
\* failed.", and every run() call that was made and joined has returned a
\* tally of all submitted test cases.
C3_NothingEscapes ==
    /\ \A p \in Paths : pc[p] = "done" => exc[p] = NoExc
    /\ phase = "idle" =>
          /\ Len(rets) = ncall
          /\ \A k \in 1..ncall : pc[Root(k)] = "done" /\ tres[Root(k)] = PASSED
          /\ ncall > 0 => rets[ncall].total = Cardinality(SubmittedLeaves)

\* Witness of C3: run() has returned although a test case raised in setup,
\* another raised in teardown and a tuple raised its failure.
C3_Witness ==
    /\ Returned
    /\ ncall > 0
    /\ \E t \in ParallelGroups : tres[t] = FAILED /\ pc[t] = "done"
    /\ \E l \in Leaves : tc[l].result = FAILED /\ calls[l].teardown = 1
    /\ rets[ncall].failed >= 1

\* C4: under fair scheduling every run() call returns, and whenever the
\* caller is not inside run() every thread that was started has ended.
C4_Terminates ==
    /\ (phase = "joining") ~> (phase = "idle")
    /\ [](phase # "joining" => \A p \in Paths : pc[p] \in {"new", "done"})

\* Witness of C4: run() has returned from a structure with a tuple of two
\* children and a test case three groups deep, all executed.
C4_Witness ==
    /\ Returned
    /\ ncall > 0
    /\ \E t \in ParallelGroups : NKids(t) = 2 /\ \A c \in Kids(t) : pc[c] = "done"
    /\ \E l \in Leaves : Len(l) >= 4 /\ Executed(l)

\* The result that belongs to an exception class.
ResultFor(type) ==
    CASE type = None -> PASSED
      [] type = TestCaseSkippedError -> SKIPPED
      [] type = TestCaseXPassedError -> XPASSED
      [] type = TestCaseXFailedError -> XFAILED
      [] OTHER -> FAILED

\* C5: when run_test has recorded the outcome of an executed test case, the
\* result is PASSED, SKIPPED, XPASSED, XFAILED or FAILED according to the
\* exception its attempt raised (none, the skip signal, the two xfail
\* signals, any other), the message is the text of that exception and None
\* for PASSED; a test case whose thread has ended has one of the five results.
C5_Classification ==
    \A l \in Leaves :
        /\ (pc[l] = "exit" /\ (~cfg.dry_run \/ exc[l] = NoExc)) =>
              /\ tc[l].result = ResultFor(exc[l].type)
              /\ tc[l].message = exc[l].text
              /\ tc[l].result = PASSED <=> tc[l].message = None
        /\ (pc[l] = "done" /\ ~cfg.dry_run /\ Sole(l)) =>
              /\ tc[l].result \in Results
              /\ tres[l] = tc[l].result

\* Witness of C5: a test case whose run raised the skip signal is recorded
\* as SKIPPED with the text of the signal.
C5_Witness ==
    \E l \in Leaves :
        /\ pc[l] = "exit"
        /\ loc[l].body.type = TestCaseSkippedError
        /\ loc[l].td = NoExc
        /\ tc[l].result = SKIPPED
        /\ tc[l].message = UserText

\* C6: a test case whose setup raised has neither run nor teardown invoked,
\* and its result is the one of the exception setup raised: FAILED, or
\* SKIPPED, XPASSED, XFAILED for those signals.
C6_SetupFailure ==
    \A l \in Leaves :
        /\ loc[l].setup.type \notin {NotCalled.type, None} =>
              /\ calls[l].run = 0
              /\ calls[l].teardown = 0
              /\ pc[l] = "exit" =>
                    /\ tc[l].result = ResultFor(loc[l].setup.type)
                    /\ tc[l].result # PASSED
        /\ (pc[l] = "done" /\ calls[l].setup = 1 /\ calls[l].run = 0) =>
              /\ calls[l].teardown = 0
              /\ Sole(l) => tc[l].result \in Results \ {PASSED}

\* Witness of C6: setup raised an ordinary error, the test case is FAILED and
\* only setup was invoked.
C6_Witness ==
    \E l \in Leaves :
        /\ pc[l] = "exit"
        /\ loc[l].setup.type = OtherException
        /\ tc[l].result = FAILED
        /\ calls[l] = [NoCalls EXCEPT !.setup = 1]

\* C7: setup, run and teardown are each invoked at most once, teardown never
\* before run and run never before setup; once setup has returned normally
\* and run_test_normal is left, run and teardown have each been invoked once,
\* whatever run did.
C7_RunThenTeardownOnce ==
    \A l \in Leaves :
        /\ calls[l].teardown <= calls[l].run
        /\ calls[l].run <= calls[l].setup
        /\ calls[l].setup <= 1
        /\ pc[l] = "teardown" => calls[l].run = 1 /\ calls[l].teardown = 0
        /\ (loc[l].setup = NoExc /\ pc[l] \in {"complete", "exit"}) =>
              calls[l].run = 1 /\ calls[l].teardown = 1
        /\ (pc[l] = "done" /\ calls[l].run = 1) => calls[l].teardown = 1

\* Witness of C7: run raised an ordinary error and teardown was invoked all
\* the same.
C7_Witness ==
    \E l \in Leaves :
        /\ pc[l] = "exit"
        /\ ~loc[l].wrapped
        /\ loc[l].body.type = OtherException
        /\ calls[l] = [NoCalls EXCEPT !.setup = 1, !.run = 1, !.teardown = 1]

\* What the claim expects of a test case whose run is decorated with xfail.
XfailResult(body) ==
    IF body.type = TestCaseSkippedError THEN SKIPPED
    ELSE IF body.type = None THEN XPASSED
    ELSE XFAILED

\* run_failed is set, if at all, by another test case than l.
LatchNotSetBy(l) ==
    sq.run_failed => \E q \in Leaves \ {l} : HasFailed(q)

\* C8 as stated: a test case whose run is decorated with xfail ends XFAILED
\* if the body raised an error, XPASSED if it returned, SKIPPED if it raised
\* the skip signal, and never sets the failure latch.
C8_Original ==
    \A l \in Leaves :
        (pc[l] = "exit" /\ loc[l].wrapped) =>
            /\ tc[l].result = XfailResult(loc[l].body)
            /\ LatchNotSetBy(l)

\* C8, amended: the same, for a test case whose teardown returned normally.
C8_XfailOutcome ==
    \A l \in Leaves :
        (pc[l] = "exit" /\ loc[l].wrapped /\ loc[l].td = NoExc) =>
            /\ tc[l].result = XfailResult(loc[l].body)
            /\ tc[l].result # FAILED
            /\ LatchNotSetBy(l)

\* Witness of C8: the decorated body raised an error, teardown returned, the
\* test case is XFAILED and the latch is clear.
C8_Witness ==
    \E l \in Leaves :
        /\ pc[l] = "exit"
        /\ loc[l].wrapped
        /\ loc[l].body.type = OtherException
        /\ loc[l].td = NoExc
        /\ tc[l].result = XFAILED
        /\ ~sq.run_failed

\* The for loop of the serial runner p has gone past its j-th element.
Past(p, j) == pc[p] = "done" \/ (pc[p] = "seq" /\ idx[p] > j)
\* Element i of group p ended FAILED.
EndedFailed(p, i) == pc[Kid(p, i)] = "done" /\ tres[Kid(p, i)] = FAILED
\* Test case l was run normally: not skipped because of a failure, and set up
\* unless it is a dry run or the filter disables it.
RunNormally(l) ==
    /\ pc[l] = "done"
    /\ tc[l].message # SkippedByFailure
    /\ (~cfg.dry_run /\ is_testcase_enabled(cfg.testcase_pattern, tc[l].name)) =>
          calls[l].setup = 1

\* C9 as stated: with continue_on_failure true, the element after one that
\* ended FAILED is run, whatever its kind.
C9_Original ==
    sq.continue_on_failure =>
        \A p \in SerialGroups : \A i \in 1..NKids(p) :
            (CurrentCall(p) /\ i < NKids(p) /\ EndedFailed(p, i) /\ Past(p, i + 1)) =>
                pc[Kid(p, i + 1)] = "done"

\* C9, amended: with continue_on_failure true, the element after one that
\* ended FAILED is run normally if it is a test case or a tuple; if it is a
\* list it is not run.  A tuple that is run normally has its thread started
\* and ended and every test case among its children run normally; all its
\* children are run when it is run by run_parallel_tests (under
\* force_serial_execution it is itself a serially run group).
C9_ContinueOnFailure ==
    sq.continue_on_failure =>
        \A p \in SerialGroups : \A i \in 1..NKids(p) :
            (CurrentCall(p) /\ i < NKids(p) /\ EndedFailed(p, i) /\ Past(p, i + 1)) =>
                LET next == Kid(p, i + 1)
                IN /\ Kind(next) = "test" => RunNormally(next)
                   /\ Kind(next) = "tuple" =>
                         /\ pc[next] = "done"
                         /\ \A c \in Kids(next) : Kind(c) = "test" => RunNormally(c)
                         /\ ~cfg.force_serial_execution =>
                               \A c \in Kids(next) : pc[c] = "done"
                   /\ Kind(next) = "list" => ~Started(next)

\* Witness of C9: after a FAILED test case, a tuple of two test cases was
\* executed.
C9_Witness ==
    /\ sq.continue_on_failure
    /\ \E p \in SerialGroups : \E i \in 1..NKids(p) :
         /\ CurrentCall(p)
         /\ i < NKids(p)
         /\ Kind(Kid(p, i)) = "test"
         /\ tc[Kid(p, i)].result = FAILED
         /\ Kind(Kid(p, i + 1)) = "tuple"
         /\ NKids(Kid(p, i + 1)) = 2
         /\ \A c \in Kids(Kid(p, i + 1)) : Kind(c) = "test" /\ Executed(c)

\* The test cases reported as skipped: those with result SKIPPED or no result.
SkippedLeaves == {l \in SubmittedLeaves : tc[l].result \in {None, SKIPPED}}

\* C10: a list that directly follows an element that ended FAILED, in a
\* group run by the serial runner, is never started, whatever
\* continue_on_failure is: no thread in it is started, no setup, run or
\* teardown of a test case in it is invoked, their results stay unset (for
\* an instance submitted nowhere else, whose result was unset), and the tally
\* run() returns counts them as skipped.
C10_SerialSubgroupSkipped ==
    /\ \A p \in Paths : \A i \in 1..NKids(p) :
         (/\ RunsSequential(p)
          /\ i < NKids(p)
          /\ Kind(Kid(p, i + 1)) = "list"
          /\ EndedFailed(p, i)) =>
             /\ ~Started(Kid(p, i + 1))
             /\ \A l \in LeavesIn(Kid(p, i + 1)) :
                  /\ calls[l] = NoCalls
                  /\ Sole(l) => tc[l].result = None
                  /\ (Sole(l) /\ phase = "idle" /\ Len(rets) = ncall) => l \in SkippedLeaves
    /\ (phase = "idle" /\ ncall > 0) =>
          rets[ncall].skipped = Cardinality(SkippedLeaves)

\* Witness of C10: with continue_on_failure true, run() has returned, a
\* tuple signalled failure, the list after it holds a test case that was
\* never started, and the tally counts it as skipped.
C10_Witness ==
    /\ Returned
    /\ sq.continue_on_failure
    /\ \E p \in SerialGroups : \E i \in 1..NKids(p) :
         /\ i < NKids(p)
         /\ Kind(Kid(p, i)) = "tuple"
         /\ EndedFailed(p, i)
         /\ Kind(Kid(p, i + 1)) = "list"
         /\ LeavesIn(Kid(p, i + 1)) # {}
         /\ \A l \in LeavesIn(Kid(p, i + 1)) : pc[l] = "new"
         /\ rets[ncall].skipped >= Cardinality(LeavesIn(Kid(p, i + 1)))
         /\ rets[ncall].skipped >= 1

\* A test case of the current run() call has ended FAILED.
FailedInCall == \E f \in Leaves : HasFailed(f)
\* The thread of test case l takes its first step: run_test up to the
\* decision of run_test_normal.
Dispatches(l) == pc[l] = "ready" /\ pc'[l] # "ready"
\* Test case l has been skipped by run_test_normal with the given message and
\* run_test has recorded it.
SkipRecorded(l, text) ==
    (pc[l] = "exit" /\ exc[l] = Exc(TestCaseSkippedError, text)) =>
        /\ tc[l].result = SKIPPED
        /\ tc[l].message = text
        /\ calls[l] = NoCalls

\* C11 as stated: with continue_on_failure false, once a test case of the
\* current run() call has ended FAILED, every test case dispatched afterwards
\* in that call is skipped with the message "Testcase skipped by failure.",
\* without setup, run or teardown.
C11_Original ==
    /\ [][\A l \in Leaves :
            (Dispatches(l) /\ ~sq.continue_on_failure /\ FailedInCall) =>
                /\ pc'[l] = "complete"
                /\ exc'[l] = Exc(TestCaseSkippedError, SkippedByFailure)
                /\ calls'[l] = NoCalls]_vars
    /\ [](\A l \in Leaves : SkipRecorded(l, SkippedByFailure))

\* C11, amended: with continue_on_failure false, once a test case of the
\* current run() call has ended FAILED, every test case dispatched afterwards
\* in that call has none of setup, run, teardown invoked and ends SKIPPED,
\* with the message "Testcase skipped by failure." if the filter enables it
\* and "Testcase disabled by filter." if not.
C11_StopOnFailure ==
    /\ [][\A l \in Leaves :
            (Dispatches(l) /\ ~sq.continue_on_failure /\ FailedInCall) =>
                /\ pc'[l] = "complete"
                /\ exc'[l] = Exc(TestCaseSkippedError,
                               IF is_testcase_enabled(cfg.testcase_pattern, tc'[l].name)
                               THEN SkippedByFailure ELSE DisabledByFilter)
                /\ calls'[l] = NoCalls]_vars
    /\ [](\A l \in Leaves : SkipRecorded(l, SkippedByFailure)
                           /\ SkipRecorded(l, DisabledByFilter))

\* Witness of C11: in a call with continue_on_failure false a test case has
\* ended FAILED and a later one of a parallel group is recorded as skipped by
\* failure, nothing of it having been invoked.
C11_Witness ==
    /\ ~sq.continue_on_failure
    /\ \E f, l \in Leaves :
         /\ HasFailed(f) /\ CurrentCall(l)
         /\ Len(l) >= 3
         /\ pc[l] = "done"
         /\ tc[l].result = SKIPPED
         /\ tc[l].message = SkippedByFailure
         /\ calls[l] = NoCalls

\* The sequence Fail("1"), Named("a"), [Fail("2"), Named("b")] has been run
\* with continue_on_failure false by a sequencer without filter and not in
\* dry-run mode, and run() has returned.
StopOnFailureScenario ==
    /\ prog = <<L(<<F, N, L(<<F, N>>)>>)>>
    /\ ~cfg.dry_run
    /\ ~cfg.testcase_pattern.given
    /\ ~sq.continue_on_failure
    /\ Returned
\* Test case l was skipped because of an earlier failure, nothing invoked.
SkippedByLatch(l) ==
    /\ tc[l].result = SKIPPED
    /\ tc[l].message = SkippedByFailure
    /\ calls[l] = NoCalls

\* C12 as stated: in that scenario Named("a") is run, the inner list is
\* skipped as a whole without Fail("2") or Named("b") being invoked, and the
\* tally has failed = 1 and skipped = 2.
C12_Original ==
    StopOnFailureScenario =>
        /\ calls[<<1, 2>>].run = 1
        /\ calls[<<1, 3, 1>>] = NoCalls /\ calls[<<1, 3, 2>>] = NoCalls
        /\ rets[1].failed = 1
        /\ rets[1].skipped = 2

\* C12, amended: in that scenario Fail("1") ends FAILED; Named("a") is
\* dispatched but skipped by the failure latch, nothing of it invoked; the
\* inner list is dispatched and Fail("2") and Named("b") are each skipped by
\* the latch, nothing invoked; the tally has failed = 1, skipped = 3,
\* passed = 0, total = 4.
C12_StopOnFailureScenario ==
    StopOnFailureScenario =>
        /\ tc[<<1, 1>>].result = FAILED
        /\ SkippedByLatch(<<1, 2>>)
        /\ pc[<<1, 3>>] = "done"
        /\ SkippedByLatch(<<1, 3, 1>>) /\ SkippedByLatch(<<1, 3, 2>>)
        /\ rets[1] = [passed |-> 0, failed |-> 1, skipped |-> 3, xpassed |-> 0,
                      xfailed |-> 0, total |-> 4]

\* Witness of C12: the scenario has been run and has returned a tally with
\* one failure.
C12_Witness == StopOnFailureScenario /\ rets[1].failed = 1

\* C13: every run() call starts with run_failed cleared, and a test case is
\* skipped with "Testcase skipped by failure." only when its own call has
\* continue_on_failure false and another test case of that same call has
\* ended FAILED; the first element of a call is always dispatched.
C13_LatchPerCall ==
    /\ [][ncall' # ncall => ~sq'.run_failed]_vars
    /\ [](\A l \in Leaves :
            (pc[l] = "exit" /\ exc[l] = Exc(TestCaseSkippedError, SkippedByFailure)) =>
                /\ ~sq.continue_on_failure
                /\ \E f \in Leaves \ {l} : HasFailed(f))
    /\ [](\A k \in 1..Len(prog) :
            (NKids(Root(k)) >= 1 /\ Past(Root(k), 1)) => pc[Kid(Root(k), 1)] = "done")

\* Witness of C13: a test case FAILED in the first call, the second call has
\* continue_on_failure false and a test case of it was executed and PASSED.
C13_Witness ==
    /\ ncall = 2
    /\ ~sq.continue_on_failure
    /\ \E f, l \in Leaves :
         /\ Head(f) = 1 /\ tres[f] = FAILED /\ calls[f].run = 1
         /\ Head(l) = 2 /\ Executed(l) /\ tres[l] = PASSED

\* The thread of group p has ended FAILED: the group signals failure to the
\* runner that joined it.
Signalled(p) == pc[p] = "done" /\ tres[p] = FAILED

\* C14: a Parallel group signals failure if and only if a direct child ended
\* FAILED.  The children are all joined when the signal is evaluated; a
\* child that is a test case ended FAILED exactly when its result is FAILED
\* (SKIPPED, XPASSED, XFAILED and PASSED children do not count); the
\* enclosing serial runner sets prev_test_failed exactly when the group
\* signalled.
C14_ParallelFailure ==
    \A p \in ParallelGroups :
        /\ pc[p] \in {"check", "done"} => \A c \in Kids(p) : pc[c] = "done"
        /\ pc[p] = "done" =>
              /\ tres[p] \in {PASSED, FAILED}
              /\ Signalled(p) <=> \E c \in Kids(p) : tres[c] = FAILED
              /\ \A c \in Kids(p) :
                    (Kind(c) = "test" /\ ~cfg.dry_run /\ Sole(c)) =>
                        /\ tc[c].result = tres[c]
                        /\ tc[c].result \in {SKIPPED, XPASSED, XFAILED, PASSED} =>
                              tres[c] # FAILED
              /\ \A q \in Paths : \A i \in 1..NKids(q) :
                    (p = Kid(q, i) /\ pc[q] = "seq" /\ idx[q] = i + 1) =>
                        (prev[q] <=> Signalled(p))

\* Witness of C14: a Parallel group has signalled failure because a nested
\* Parallel group signalled failure, while another child ended PASSED.
C14_Witness ==
    \E p \in ParallelGroups : \E c, d \in Kids(p) :
        /\ Signalled(p)
        /\ Kind(c) = "tuple" /\ Signalled(c)
        /\ tres[d] = PASSED

\* A Parallel group ended without signalling although a child was skipped.
C14_SkippedChild ==
    \E p \in ParallelGroups : \E c \in Kids(p) :
        /\ pc[p] = "done" /\ tres[p] = PASSED
        /\ Kind(c) = "test" /\ tc[c].result = SKIPPED /\ tres[c] = SKIPPED

\* Element i + 1 of the Serial group q of the current call is a tuple, the
\* element before it ended FAILED and the runner of q has gone past it.
TupleAfterFailure(q, i) ==
    /\ CurrentCall(q)
    /\ i < NKids(q)
    /\ EndedFailed(q, i)
    /\ Kind(Kid(q, i + 1)) = "tuple"
    /\ Past(q, i + 1)

\* C15 as stated: a tuple that directly follows a FAILED element of a Serial
\* group is dispatched and executes fully: every child is run.
C15_Original ==
    \A q \in SerialGroups : \A i \in 1..NKids(q) :
        TupleAfterFailure(q, i) =>
            /\ pc[Kid(q, i + 1)] = "done"
            /\ \A c \in Kids(Kid(q, i + 1)) :
                  /\ pc[c] = "done"
                  /\ Kind(c) = "test" => RunNormally(c)

\* C15, amended: a tuple that directly follows a FAILED element of a Serial
\* group is dispatched.  Run in parallel, every child is dispatched; run
\* under force_serial_execution, every test case among its children is.  With
\* continue_on_failure true every test case among its children is run
\* normally; with continue_on_failure false and outside dry-run mode every
\* enabled one is skipped by the failure latch.
C15_ParallelAfterFailure ==
    \A q \in SerialGroups : \A i \in 1..NKids(q) :
        TupleAfterFailure(q, i) =>
            /\ pc[Kid(q, i + 1)] = "done"
            /\ ~cfg.force_serial_execution =>
                  \A c \in Kids(Kid(q, i + 1)) : pc[c] = "done"
            /\ \A c \in Kids(Kid(q, i + 1)) :
                  Kind(c) = "test" =>
                      /\ pc[c] = "done"
                      /\ IF sq.continue_on_failure \/ cfg.dry_run
                         THEN RunNormally(c)
                         ELSE is_testcase_enabled(cfg.testcase_pattern, tc[c].name) =>
                                 SkippedByLatch(c)

\* Witness of C15: with continue_on_failure false, the two test cases of a
\* tuple that follows a FAILED test case were dispatched and skipped by the
\* latch.
C15_Witness ==
    /\ ~sq.continue_on_failure
    /\ \E q \in SerialGroups : \E i \in 1..NKids(q) :
         /\ TupleAfterFailure(q, i)
         /\ NKids(Kid(q, i + 1)) = 2
         /\ \A c \in Kids(Kid(q, i + 1)) : Kind(c) = "test" /\ SkippedByLatch(c)

\* With continue_on_failure true, the two test cases of a tuple that follows
\* a FAILED test case were set up and run.
C15_RunFully ==
    /\ sq.continue_on_failure
    /\ ~cfg.force_serial_execution
    /\ \E q \in SerialGroups : \E i \in 1..NKids(q) :
         /\ TupleAfterFailure(q, i)
         /\ NKids(Kid(q, i + 1)) = 2
         /\ \A c \in Kids(Kid(q, i + 1)) : Kind(c) = "test" /\ calls[c].run = 1

\* The caller is back from a run() call.
BackFromRun == phase = "idle" /\ ncall >= 1
\* The test cases contained, at any depth, in a tuple passed to a run() call
\* made so far.
LeavesInTuples ==
    {l \in Leaves : Head(l) <= ncall /\ \E n \in 1..(Len(l) - 1) : Kind(SubSeq(l, 1, n)) = "tuple"}
\* Node s is a list that run_sequential_tests passed over: it directly
\* follows an element that ended FAILED and no thread was created for it.
SkippedList(s) ==
    /\ Len(s) >= 2
    /\ Kind(s) = "list"
    /\ pc[s] = "new"
    /\ s[Len(s)] >= 2
    /\ LET q == SubSeq(s, 1, Len(s) - 1)
       IN RunsSequential(q) /\ EndedFailed(q, s[Len(s)] - 1)
\* Test case l lies in a list that was passed over.
InSkippedList(l) == \E n \in 1..(Len(l) - 1) : SkippedList(SubSeq(l, 1, n))

\* C16 as stated, for a sequencer that is not in dry-run mode: after run()
\* has returned, every test case contained in a tuple has one of the five
\* results.
C16_Original ==
    (BackFromRun /\ ~cfg.dry_run) => \A l \in LeavesInTuples : tc[l].result \in Results

\* C16, amended: after run() has returned, every test case contained in a
\* tuple either lies in a list that was skipped as a whole after a FAILED
\* element, is then never dispatched and has its result unset, or its thread
\* has ended and, outside dry-run mode, it has one of the five results.
C16_NoneRunning ==
    BackFromRun =>
        \A l \in LeavesInTuples :
            IF pc[l] = "new"
            THEN InSkippedList(l) /\ calls[l] = NoCalls /\ (Sole(l) => tc[l].result = None)
            ELSE /\ pc[l] = "done"
                 /\ (~cfg.dry_run /\ Sole(l)) => tc[l].result \in Results

\* Witness of C16: run() has returned, and a tuple run in parallel holds a
\* test case that ended with a result and one, in a skipped list, without.
C16_Witness ==
    /\ BackFromRun
    /\ ~cfg.force_serial_execution
    /\ \E l, m \in LeavesInTuples :
         /\ pc[l] = "new" /\ InSkippedList(l) /\ tc[l].result = None
         /\ pc[m] = "done" /\ tc[m].result = FAILED
         /\ l[2] = m[2]

\* The leaf positions passed to run() calls 1..k.
SubmittedUpTo(k) == {l \in Leaves : Head(l) <= k}
\* The number of leaf positions of calls 1..k that count under counter name c:
\* a result that is none of PASSED, FAILED, XPASSED, XFAILED counts as skipped.
CountedAs(l, c) ==
    CASE c = "passed" -> tc[l].result = PASSED
      [] c = "failed" -> tc[l].result = FAILED
      [] c = "xpassed" -> tc[l].result = XPASSED
      [] c = "xfailed" -> tc[l].result = XFAILED
      [] c = "skipped" -> tc[l].result \notin {PASSED, FAILED, XPASSED, XFAILED}
Counters == {"passed", "failed", "skipped", "xpassed", "xfailed"}
\* No test case instance was submitted more than once.
NoReuse == \A l \in Leaves : Sole(l)

\* C17: the tally returned by the k-th run() call counts every leaf test case
\* submitted in calls 1..k: its total is the number of leaf positions of calls
\* 1..k, and (when no instance is submitted twice, so that results recorded by
\* earlier calls are still those the tally saw) each counter is the number of
\* those leaves with the matching result.
C17_Cumulative ==
    \A k \in 1..Len(rets) :
        /\ rets[k].total = Cardinality(SubmittedUpTo(k))
        /\ (NoReuse \/ (k = ncall /\ phase = "idle")) =>
               \A c \in Counters :
                   rets[k][c] = Cardinality({l \in SubmittedUpTo(k) : CountedAs(l, c)})

\* Two calls with two passing tests each have returned passed = 2, then 4.
C17_Witness ==
    /\ Len(rets) = 2
    /\ Cardinality(SubmittedUpTo(1)) = 2 /\ Cardinality(SubmittedUpTo(2)) = 4
    /\ rets[1].passed = 2 /\ rets[1].total = 2
    /\ rets[2].passed = 4 /\ rets[2].total = 4

\* A tally adds up: the five counters sum to total, total is the number of
\* submitted leaf positions, and each counter is the number of those positions
\* whose test case has the matching result (unset counting as skipped).
AddsUp(t) ==
    /\ t.passed + t.failed + t.skipped + t.xpassed + t.xfailed = t.total
    /\ t.total = Cardinality(SubmittedLeaves)
    /\ \A c \in Counters : t[c] = Cardinality({l \in SubmittedLeaves : CountedAs(l, c)})

\* C18: every tally adds up: the one summary_count() computes in any state
\* from the first run() call on (so also while threads are running, whatever
\* continue_on_failure is), and every tally a run() call has returned sums to
\* its total, which is the number of leaf positions submitted up to that call.
C18_TallyAddsUp ==
    /\ ncall >= 1 => AddsUp(summary_count)
    /\ \A k \in 1..Len(rets) :
           /\ rets[k].passed + rets[k].failed + rets[k].skipped
                 + rets[k].xpassed + rets[k].xfailed = rets[k].total
           /\ rets[k].total = Cardinality(SubmittedUpTo(k))

\* A run() call with continue_on_failure false has returned a tally in which
\* a test case that was never executed (result unset) is counted as skipped,
\* next to one failed and one passed test case.
C18_Witness ==
    /\ phase = "idle" /\ ncall = 1 /\ ~sq.continue_on_failure
    /\ \E l \in SubmittedLeaves : pc[l] = "new" /\ tc[l].result = None
    /\ rets[1].failed >= 1 /\ rets[1].passed >= 1
    /\ rets[1].skipped = Cardinality({l \in SubmittedLeaves : tc[l].result \notin Results \ {SKIPPED}})
    /\ rets[1].skipped >= 1

\* No tally counter decreases from one run() call to the next.
Monotonic ==
    \A k \in 2..Len(rets) :
        \A c \in Counters \cup {"total"} : rets[k][c] >= rets[k - 1][c]

\* C19: no tally counter decreases from one run() call to the next: each of
\* passed, failed, skipped, xpassed, xfailed and total returned by a call is
\* at least its value in the tally the previous call returned (stated for a
\* sequencer that is not in dry-run mode, where test cases are executed).
C19_Monotonic == ~cfg.dry_run => Monotonic

\* The same in either mode, for programs that submit no test case instance
\* more than once.
C19_WithoutReuse == NoReuse => Monotonic

\* An instance that passed in the first call is submitted again and fails:
\* the second tally has fewer passed than the first.
C19_Decreased ==
    /\ Len(rets) = 2 /\ ~NoReuse
    /\ rets[1].passed = 1 /\ rets[2].passed = 0 /\ rets[2].failed = 2

\* The name of test case l has been read and does not match the configured
\* filter.
Disabled(l) ==
    /\ cfg.testcase_pattern.given
    /\ tc[l].name # Unread
    /\ ~Search(cfg.testcase_pattern.re, tc[l].name)
\* None of setup, run, teardown of test case l has been invoked.
NotExecuted(l) == calls[l].setup = 0 /\ calls[l].run = 0 /\ calls[l].teardown = 0
\* run_test records the outcome of test case l (its finally block).
Records(l) == pc[l] = "complete" /\ pc'[l] = "exit"
\* The loop of the serially run group p has gone past its element j.
PastElement(p, j) ==
    \/ pc[p] = "done"
    \/ pc[p] \in {"seq", "seqjoin"} /\ idx[p] > j
\* In a serially run group, no list that directly follows a finished disabled
\* test case has been passed over.
DisabledSkipsNothing ==
    \A p \in Paths : \A i \in 1..NKids(p) :
        (/\ RunsSequential(p)
         /\ i < NKids(p)
         /\ Kind(Kid(p, i)) = "test"
         /\ Kind(Kid(p, i + 1)) = "list"
         /\ Disabled(Kid(p, i))
         /\ PastElement(p, i + 1)) => Started(Kid(p, i + 1))
\* What the filter does when test case l is dispatched and recorded: the
\* disabled test case is skipped at once with the filter message, nothing of
\* it invoked.
SkippedByFilter(l) ==
    (Dispatches(l) /\ Disabled(l)') =>
        /\ pc'[l] = "complete"
        /\ exc'[l] = Exc(TestCaseSkippedError, DisabledByFilter)
        /\ calls'[l] = NoCalls
\* Recording a disabled test case leaves the failure latch as it is.
NoLatchByFilter(l) == (Records(l) /\ Disabled(l)) => sq'.run_failed = sq.run_failed
\* Without a filter no test case is disabled.
AllEnabledWithoutFilter(l) ==
    (Dispatches(l) /\ ~cfg.testcase_pattern.given) =>
        exc'[l] # Exc(TestCaseSkippedError, DisabledByFilter)
\* A finished disabled test case is SKIPPED with the filter message, and so
\* is its thread.
EndsSkippedByFilter(l) ==
    /\ SkipRecorded(l, DisabledByFilter)
    /\ (Disabled(l) /\ pc[l] = "exit") =>
           tc[l].result = SKIPPED /\ tc[l].message = DisabledByFilter
    /\ (Disabled(l) /\ pc[l] = "done") => tres[l] = SKIPPED

\* C20 as stated: a test case whose name does not match the filter has none
\* of setup, run, teardown invoked and ends SKIPPED with the message
\* "Testcase disabled by filter."; it does not set the failure latch and the
\* list that follows it is not skipped; without a filter every test case is
\* enabled.
C20_Original ==
    /\ [][\A l \in Leaves : /\ SkippedByFilter(l)
                            /\ NoLatchByFilter(l)
                            /\ AllEnabledWithoutFilter(l)]_vars
    /\ [](\A l \in Leaves : (Disabled(l) => NotExecuted(l)) /\ EndsSkippedByFilter(l))
    /\ []DisabledSkipsNothing

\* C20, amended: a test case whose name does not match the filter has none of
\* setup, run, teardown invoked and does not set the failure latch; outside
\* dry-run mode it ends SKIPPED with the message "Testcase disabled by
\* filter." and the list that follows it is not skipped. Without a filter
\* every test case is enabled.
C20_DisabledByFilter ==
    /\ [][\A l \in Leaves : /\ ~cfg.dry_run => SkippedByFilter(l)
                            /\ NoLatchByFilter(l)
                            /\ AllEnabledWithoutFilter(l)]_vars
    /\ [](\A l \in Leaves : /\ Disabled(l) => NotExecuted(l)
                            /\ ~cfg.dry_run => EndsSkippedByFilter(l))
    /\ [](~cfg.dry_run => DisabledSkipsNothing)

\* Witness of C20: a disabled test case of a serial group has ended SKIPPED
\* with the filter message, nothing of it invoked, the latch is not set, and
\* the list after it has been started and its test case executed.
C20_Witness ==
    /\ ~cfg.dry_run /\ ~sq.run_failed
    /\ \E p \in Paths : \E i \in 1..(NKids(p) - 1) :
         /\ Kind(p) = "list" /\ Kind(Kid(p, i)) = "test" /\ Kind(Kid(p, i + 1)) = "list"
         /\ Disabled(Kid(p, i)) /\ pc[Kid(p, i)] = "done"
         /\ tc[Kid(p, i)].result = SKIPPED
         /\ tc[Kid(p, i)].message = DisabledByFilter
         /\ calls[Kid(p, i)] = NoCalls
         /\ \E m \in LeavesIn(Kid(p, i + 1)) : calls[m].run = 1 /\ pc[m] = "done"

\* The thread of test case l is past run_test and dry_run() returned value v
\* to it (-1 for None).
DryRunReturned(l, v) == pc[l] = "exit" /\ loc[l].et = v

DryRunsReturned ==
    /\ cfg.dry_run
    /\ BackFromRun
    /\ \A l \in SubmittedLeaves : tres[l] # FAILED

\* C22: in dry-run mode, when every dry_run() returns normally, every
\* submitted test case has been dispatched once, ends PASSED whatever its
\* class, its place and its name, and the tally returned has passed = total =
\* the number of leaves.
C22_DryRunAllPassed ==
    DryRunsReturned =>
        /\ \A l \in SubmittedLeaves :
             /\ pc[l] = "done"
             /\ calls[l] = [setup |-> 0, run |-> 0, teardown |-> 0, dry_run |-> 1]
             /\ tc[l].result = PASSED
        /\ rets[ncall].passed = Cardinality(SubmittedLeaves)
        /\ rets[ncall].total = Cardinality(SubmittedLeaves)
        /\ rets[ncall].failed = 0 /\ rets[ncall].skipped = 0

\* Witness of C22: a dry run has returned with every test case PASSED, among
\* them a FailTest, a test case of a list that follows a FailTest in a group
\* run serially, and a test case whose name does not match the filter.
C22_Witness ==
    /\ DryRunsReturned
    /\ \A l \in SubmittedLeaves : tc[l].result = PASSED
    /\ \E l \in SubmittedLeaves : Disabled(l)
    /\ \E p \in Paths : \E i \in 1..(NKids(p) - 1) :
         /\ RunsSequential(p)
         /\ Kind(Kid(p, i)) = "test" /\ Class(Kid(p, i)) = "FailTest"
         /\ Kind(Kid(p, i + 1)) = "list"
         /\ LeavesIn(Kid(p, i + 1)) # {}
         /\ \A m \in LeavesIn(Kid(p, i + 1)) : tc[m].result = PASSED

\* The tuples, which force_serial_execution hands to the serial runner.
Tuples == {p \in Paths : Kind(p) = "tuple"}
\* The test cases whose thread is started and has not ended.
RunningTests == {l \in Leaves : pc[l] \notin {"new", "done"}}
\* With force_serial_execution the children of a tuple run one at a time in
\* submission order, and no two test cases run at the same time.
OneAtATime ==
    /\ \A p \in Tuples : \A i, j \in 1..NKids(p) :
         (i < j /\ Started(Kid(p, j))) => ~Running(Kid(p, i))
    /\ Cardinality(RunningTests) <= 1
\* In tuple p of the current call, child i is a test case that ended FAILED,
\* child i + 1 is a test case, and the loop of the serial runner is past it.
PastFailedThenTest(p, i) ==
    /\ CurrentCall(p)
    /\ i < NKids(p)
    /\ Kind(Kid(p, i)) = "test" /\ Kind(Kid(p, i + 1)) = "test"
    /\ EndedFailed(p, i)
    /\ PastElement(p, i + 1)
\* Test case l was set up: its body was run.
BodyRun(l) == pc[l] = "done" /\ calls[l].setup = 1

GraphBuilt ==
    /\ dg.status = "built"
    /\ phase = "idle"
    /\ dg.tests = sq.tests

\* The attributes of the object with identity i after the call.
Node(i) ==
    IF i = BeginId THEN dg.begin
    ELSE IF i = EndId THEN dg.end
    ELSE Attrs(tc[CHOOSE l \in SubmittedLeaves : Id(l) = i])

\* The objects with a set result that the traversal visits: the executed test
\* cases of self.tests, and end.
ExecutedIds == {Id(l) : l \in {m \in SubmittedLeaves : tc[m].result # None}} \cup {EndId}

\* The first position of i in the sequence ps.
FirstIndex(ps, i) == CHOOSE k \in 1..Len(ps) : ps[k] = i /\ \A j \in 1..(k - 1) : ps[j] # i

\* Object i has its execution_time, one start_parent among its parents that
\* finishes no earlier than any of them and later than every parent before
\* it, and finishes execution_time after that start_parent.
StartsAfterSlowestParent(i) ==
    LET n == Node(i)
    IN /\ n.execution_time # NoTime
       /\ n.start_parent # NoParent
       /\ \E k \in 1..Len(n.parents) : n.parents[k] = n.start_parent
       /\ \A k \in 1..Len(n.parents) :
            Node(n.parents[k]).finish_time <= Node(n.start_parent).finish_time
       /\ \A k \in 1..Len(n.parents) :
            k < FirstIndex(n.parents, n.start_parent) =>
                Node(n.parents[k]).finish_time < Node(n.start_parent).finish_time
       /\ n.finish_time = Node(n.start_parent).finish_time + n.execution_time

\* C24: after dot_digraph() has returned, every test case with a set result
\* (and end) has a set execution_time, a start_parent that is the first of its
\* parents with the largest finish_time, and finish_time =
\* start_parent.finish_time + execution_time; begin has finish_time 0.
C24_StartParent ==
    GraphBuilt =>
        /\ dg.begin.finish_time = 0
        /\ \A i \in ExecutedIds : StartsAfterSlowestParent(i)

\* C24 for sequences in which no test case instance is submitted twice.
C24_WithoutReuse == NoReuse => C24_StartParent

\* Witness of the failure of C24: the instance submitted to two run() calls
\* is its own start_parent, and its finish_time is not that of its
\* start_parent plus its execution_time.
C24_SelfParent ==
    /\ GraphBuilt
    /\ \E l \in SubmittedLeaves :
         /\ tc[l].result # None
         /\ tc[l].start_parent = Id(l)
         /\ tc[l].execution_time > 0
         /\ tc[l].finish_time # Node(tc[l].start_parent).finish_time + tc[l].execution_time

\* A state C24 speaks of: a test case that follows a tuple of two executed
\* test cases of equal finish_time starts after the first of the two.
C24_Witness ==
    /\ GraphBuilt /\ NoReuse
    /\ \E l \in SubmittedLeaves :
         /\ tc[l].result # None
         /\ Len(tc[l].parents) = 2
         /\ tc[l].parents[1] # tc[l].parents[2]
         /\ Node(tc[l].parents[1]).finish_time = Node(tc[l].parents[2]).finish_time
         /\ tc[l].start_parent = tc[l].parents[1]
         /\ tc[l].execution_time > 0

\* The parents element p of the submitted structure receives, and those it
\* hands on, read off the structure position by position: the first element
\* of self.tests receives begin, an element of a list what the element before
\* it hands on (the first what the list receives), an element of a tuple what
\* the tuple receives; an executed test case hands itself on, another what it
\* received, a list what its last element hands on, a tuple what its
\* elements hand on, one after the other.
RECURSIVE InputParents(_), OutputParents(_), OutputsFrom(_, _)
InputParents(p) ==
    LET k == p[Len(p)]
        q == SubSeq(p, 1, Len(p) - 1)
    IN IF Len(p) = 2
       THEN LET j == CHOOSE j \in 1..Len(sq.tests) : sq.tests[j] = p
            IN IF j = 1 THEN <<BeginId>> ELSE OutputParents(sq.tests[j - 1])
       ELSE IF Kind(q) = "tuple" \/ k = 1 THEN InputParents(q)
       ELSE OutputParents(Kid(q, k - 1))

OutputParents(p) ==
    IF Kind(p) = "test"
    THEN IF tc[p].result # None THEN <<Id(p)>> ELSE InputParents(p)
    ELSE IF Kind(p) = "list"
    THEN IF NKids(p) = 0 THEN InputParents(p) ELSE OutputParents(Kid(p, NKids(p)))
    ELSE OutputsFrom(p, 1)

OutputsFrom(p, k) ==
    IF k > NKids(p) THEN <<>> ELSE OutputParents(Kid(p, k)) \o OutputsFrom(p, k + 1)

\* Test case position l is the last position of its instance in self.tests:
\* the parents the instance holds are those this position received.
LastVisit(l) ==
    LET w == walk_tests(sq.tests, 1)
        at(m) == CHOOSE k \in 1..Len(w) : w[k] = m
    IN \A m \in SubmittedLeaves : SameInstance(l, m) => at(m) <= at(l)

\* C25: the traversal hands the parents through the submitted structure in
\* order: every test case has recorded the parents its position receives
\* (begin for the first element, the output of the element before it in a
\* list, the input of the tuple in a tuple, whose output is that of all its
\* elements together, an executed test case handing on itself), and end has
\* recorded the output of the last element.
C25_Threading ==
    GraphBuilt =>
        /\ \A l \in SubmittedLeaves : LastVisit(l) => tc[l].parents = InputParents(l)
        /\ dg.end.parents = IF sq.tests = <<>> THEN <<BeginId>>
                            ELSE OutputParents(sq.tests[Len(sq.tests)])

\* Witness of C25: a tuple of two executed test cases, which both received
\* begin, followed by a test case that received the two, followed by end.
C25_Witness ==
    /\ GraphBuilt
    /\ prog = <<L(<<P(<<G, G>>), N>>)>>
    /\ tc[<<1, 1, 1>>].result # None /\ tc[<<1, 1, 2>>].result # None
    /\ tc[<<1, 1, 1>>].parents = <<BeginId>> /\ tc[<<1, 1, 2>>].parents = <<BeginId>>
    /\ tc[<<1, 2>>].parents = <<<<1, 1, 1>>, <<1, 1, 2>>>>
    /\ dg.end.parents = <<<<1, 2>>>>

\* The last dot_digraph() call, whether it returned or raised, walked the
\* self.tests of this state.
GraphCurrent == dg.status # "none" /\ phase = "idle" /\ dg.tests = sq.tests

\* The test cases of self.tests that were not executed: their result is unset.
UnexecutedIds == {Id(l) : l \in {m \in SubmittedLeaves : tc[m].result = None}}

\* The element that follows position p in its list (self.tests for a
\* top-level element), if there is one.
HasNext(p) ==
    IF Len(p) = 2
    THEN \E j \in 1..(Len(sq.tests) - 1) : sq.tests[j] = p
    ELSE LET q == SubSeq(p, 1, Len(p) - 1)
         IN Kind(q) = "list" /\ p[Len(p)] < NKids(q)
NextElement(p) ==
    IF Len(p) = 2
    THEN sq.tests[(CHOOSE j \in 1..Len(sq.tests) : sq.tests[j] = p) + 1]
    ELSE Kid(SubSeq(p, 1, Len(p) - 1), p[Len(p)] + 1)
\* Position p is the last element of self.tests: end follows it.
LastElement(p) == sq.tests # <<>> /\ sq.tests[Len(sq.tests)] = p

\* The test cases that receive what element p receives: p itself, the
\* test cases of a tuple, the first test case of a list.
Receivers(p) ==
    IF Kind(p) = "test" THEN {p}
    ELSE IF Kind(p) = "tuple" THEN {Kid(p, k) : k \in {j \in 1..NKids(p) : Kind(Kid(p, j)) = "test"}}
    ELSE IF NKids(p) > 0 /\ Kind(Kid(p, 1)) = "test" THEN {Kid(p, 1)}
    ELSE {}

\* C26: a test case whose result is unset is transparent to dot_digraph: it
\* is in no parents list, no edge and no emitted line has it as parent or as
\* test, and the element after it (end after the last element) receives the
\* parents it received.
C26_Transparent ==
    /\ GraphCurrent =>
         \A l \in SubmittedLeaves : \A k \in 1..Len(tc[l].parents) :
             tc[l].parents[k] \notin UnexecutedIds
    /\ GraphBuilt =>
         /\ \A k \in 1..Len(dg.end.parents) : dg.end.parents[k] \notin UnexecutedIds
         /\ \A e \in DOMAIN dg.edges : e[1] \notin UnexecutedIds /\ e[2] \notin UnexecutedIds
         /\ \A k \in 1..Len(dg.deps) :
              dg.deps[k].parent \notin UnexecutedIds /\ dg.deps[k].test \notin UnexecutedIds
         /\ \A l \in SubmittedLeaves :
              (tc[l].result = None /\ LastVisit(l)) =>
                  /\ HasNext(l) =>
                       \A m \in Receivers(NextElement(l)) :
                           LastVisit(m) => tc[m].parents = tc[l].parents
                  /\ LastElement(l) => dg.end.parents = tc[l].parents

\* Witness of C26: a test case that was not executed, between executed test
\* cases, is followed by an executed test case that has its parents.
C26_Witness ==
    /\ GraphBuilt
    /\ \E l \in SubmittedLeaves :
         /\ tc[l].result = None
         /\ tc[l].parents # <<>> /\ tc[l].parents # <<BeginId>>
         /\ HasNext(l)
         /\ Kind(NextElement(l)) = "test"
         /\ tc[NextElement(l)].result # None
         /\ tc[NextElement(l)].parents = tc[l].parents

\* The edges (start_parent(n), n) from n back towards begin, following at most
\* fuel start_parents, and whether begin is reached that way.
RECURSIVE ChainFrom(_, _), ReachesBegin(_, _)
ChainFrom(i, fuel) ==
    IF i = BeginId \/ fuel = 0 \/ Node(i).start_parent = NoParent THEN {}
    ELSE {edge_name(Node(i).start_parent, i)} \cup ChainFrom(Node(i).start_parent, fuel - 1)
ReachesBegin(i, fuel) ==
    IF i = BeginId THEN TRUE
    ELSE IF fuel = 0 \/ Node(i).start_parent = NoParent THEN FALSE
    ELSE ReachesBegin(Node(i).start_parent, fuel - 1)

\* The chain end, start_parent(end), start_parent(start_parent(end)), ...: no
\* longer than the number of objects.
ChainLength == Cardinality(ExecutedIds) + 1
CriticalPath == ChainFrom(EndId, ChainLength)
BoldEdges == {e \in DOMAIN dg.edges : dg.edges[e] = "bold"}
SolidEdges == {e \in DOMAIN dg.edges : dg.edges[e] = "solid"}

\* The tuple of three test cases with dry_run() estimates 1.4 s, 3.2 s and
\* 0.1 s, followed by a test case.
CriticalPathScenario == <<L(<<P(<<T("Work14"), T("Work32"), T("Work1")>>), N>>)>>

\* C27: the bold edges are exactly the edges (start_parent(n), n) of the chain
\* from end back to begin, which is one path from begin to end; every other
\* edge is solid; after a tuple of test cases of durations 1.4, 3.2 and 0.1
\* the path goes through the 3.2 one.
C27_CriticalPath ==
    GraphBuilt =>
        /\ ReachesBegin(EndId, ChainLength)
        /\ BoldEdges = CriticalPath
        /\ SolidEdges = DOMAIN dg.edges \ CriticalPath
        /\ (prog = CriticalPathScenario /\ cfg.dry_run) =>
               BoldEdges = {edge_name(BeginId, <<1, 1, 2>>), edge_name(<<1, 1, 2>>, <<1, 2>>),
                            edge_name(<<1, 2>>, EndId)}

\* C27 for sequences in which no test case instance is submitted twice.
C27_WithoutReuse == NoReuse => C27_CriticalPath

\* Witness of the failure of C27: the edge from the instance submitted twice
\* to itself is bold, and no bold edge leaves begin.
C27_SelfLoop ==
    /\ GraphBuilt
    /\ \E e \in BoldEdges : e[1] = e[2]
    /\ \A e \in BoldEdges : e[1] # BeginId

\* A state C27 speaks of: the graph of the scenario, in dry-run mode, with
\* three bold edges through the 3.2 s test case and the four others solid.
C27_Witness ==
    /\ GraphBuilt
    /\ prog = CriticalPathScenario /\ cfg.dry_run
    /\ edge_name(<<1, 1, 2>>, <<1, 2>>) \in BoldEdges
    /\ Cardinality(BoldEdges) = 3
    /\ Cardinality(SolidEdges) = 4

\* The objects reached from those of S by walking parents backward.
RECURSIVE ReachedFrom(_, _)
ReachedFrom(S, fuel) ==
    LET more == S \cup UNION {{Node(i).parents[k] : k \in 1..Len(Node(i).parents)} : i \in S}
    IN IF fuel = 0 \/ more = S THEN S ELSE ReachedFrom(more, fuel - 1)

\* The (parent, test) pairs recorded for the executed test cases and end.
RecordedPairs ==
    UNION {{edge_name(Node(i).parents[k], i) : k \in 1..Len(Node(i).parents)} : i \in ExecutedIds}

\* Line d of the text is the edge of a recorded pair, labelled with the
\* finish_time of the parent and styled as the edge.
EdgeLine(d) ==
    /\ edge_name(d.parent, d.test) \in RecordedPairs
    /\ edge_name(d.parent, d.test) \in DOMAIN dg.edges
    /\ d.label = Node(d.parent).finish_time
    /\ d.style = dg.edges[edge_name(d.parent, d.test)]

\* C28: dot_digraph() does not fail on a missing edge; the edges are those of
\* the (parent, test) pairs recorded for the executed test cases and end, one
\* per pair, each emitted with the finish_time of the parent as label; every
\* executed test case is reached by walking parents backward from end.
C28_Edges ==
    /\ GraphCurrent => dg.status # "KeyError"
    /\ GraphBuilt =>
         /\ DOMAIN dg.edges = RecordedPairs
         /\ \A k \in 1..Len(dg.deps) : EdgeLine(dg.deps[k])
         /\ \A e \in RecordedPairs :
              \E k \in 1..Len(dg.deps) : edge_name(dg.deps[k].parent, dg.deps[k].test) = e
         /\ ExecutedIds \subseteq ReachedFrom({EndId}, ChainLength)

\* C28 for sequences in which no test case instance is submitted twice.
C28_WithoutReuse == NoReuse => C28_Edges

\* Witness of the failure of C28: dot_digraph() raised KeyError.
C28_KeyError == GraphCurrent /\ dg.status = "KeyError"

\* A state C28 speaks of: an executed test case with two different parents,
\* an edge from either, each emitted once.
C28_Witness ==
    /\ GraphBuilt /\ NoReuse
    /\ \E l \in SubmittedLeaves :
         /\ tc[l].result # None
         /\ Len(tc[l].parents) = 2 /\ tc[l].parents[1] # tc[l].parents[2]
         /\ \A k \in 1..2 :
              /\ edge_name(tc[l].parents[k], Id(l)) \in DOMAIN dg.edges
              /\ Cardinality({j \in 1..Len(dg.deps) :
                     dg.deps[j].parent = tc[l].parents[k] /\ dg.deps[j].test = Id(l)}) = 1

\* What a dot_digraph() call made in this state returns and leaves in the
\* test cases is what the last call returned and left: begin and end are
\* created by every call and are compared by their attributes.
SameGraphAgain ==
    \A r \in {dot_digraph} :
        /\ r.dg = dg
        /\ \A l \in SubmittedLeaves : r.a[Id(l)] = Attrs(tc[l])

\* C29: dot_digraph() is idempotent: a call that follows a call, with no
\* run() call in between, returns the same nodes, edges, styles and labels
\* (or raises the same exception) and leaves parents, start_parent and
\* finish_time of every test case as they were.
C29_Idempotent == [][(GraphCurrent /\ DotDigraph) => (dg' = dg /\ tc' = tc)]_vars

\* Witness of C29: a graph with bold and solid edges has been returned, and
\* a second call returns the same graph.
C29_Witness ==
    /\ GraphBuilt
    /\ prog = <<L(<<P(<<G, G>>), N>>)>>
    /\ Cardinality(BoldEdges) = 3
    /\ Cardinality(SolidEdges) = 2
    /\ SameGraphAgain

\* The node line of test case position l: nodes are emitted in the order of
\* the walk.
WalkIndex(l) == LET w == walk_tests(sq.tests, 1) IN CHOOSE k \in 1..Len(w) : w[k] = l
NodeLine(l) == dg.nodes[WalkIndex(l)]

\* Test case l, if executed, has an edge of its own from each of its parents,
\* and a line for it in the text.
OwnEdges(l) ==
    tc[l].result # None =>
        \A k \in 1..Len(tc[l].parents) :
            /\ <<tc[l].parents[k], NodeLine(l).id>> \in DOMAIN dg.edges
            /\ \E j \in 1..Len(dg.deps) :
                 dg.deps[j].parent = tc[l].parents[k] /\ dg.deps[j].test = NodeLine(l).id

\* C30: two different test case instances of equal name, submitted to the same
\* or to different run() calls, have two nodes of different ids, labelled with
\* the name, and each has its own edges: an edge and a line from each of its
\* parents, so that the two have as many edges as they have parents.
C30_ByIdentity ==
    GraphBuilt =>
        \A l, m \in SubmittedLeaves :
            (~SameInstance(l, m) /\ tc[l].name = tc[m].name) =>
                /\ NodeLine(l).id # NodeLine(m).id
                /\ NodeLine(l).label = tc[l].name /\ NodeLine(m).label = tc[m].name
                /\ OwnEdges(l) /\ OwnEdges(m)
                /\ (tc[l].result # None /\ tc[m].result # None) =>
                       Cardinality({e \in DOMAIN dg.edges : e[2] \in {NodeLine(l).id, NodeLine(m).id}})
                           = Cardinality({tc[l].parents[k] : k \in 1..Len(tc[l].parents)})
                               + Cardinality({tc[m].parents[k] : k \in 1..Len(tc[m].parents)})

\* Witness of C30: two executed test cases whose name, read for the filter,
\* is the same, submitted to different run() calls, with an edge from the
\* node of the first to the node of the second.
C30_Witness ==
    /\ GraphBuilt
    /\ cfg.testcase_pattern.given
    /\ \E l, m \in SubmittedLeaves :
         /\ Head(l) = 1 /\ Head(m) = 2
         /\ ~SameInstance(l, m)
         /\ tc[l].name # Unread /\ tc[l].name = tc[m].name
         /\ tc[l].result # None /\ tc[m].result # None
         /\ NodeLine(l).id # NodeLine(m).id
         /\ <<NodeLine(l).id, NodeLine(m).id>> \in DOMAIN dg.edges

\* ------------------------------------------------- the serial runner, again
\* A test case in the structure rooted at p has the result FAILED.
HoldsFailure(p) == \E l \in LeavesIn(p) : pc[l] = "done" /\ tc[l].result = FAILED

\* C34: a group run by run_sequential_tests (a list, or a tuple under
\* force_serial_execution) never ends FAILED, whatever its test cases did: its
\* thread ends PASSED, a list that directly follows it in a serially run
\* group is started, and a tuple run in parallel that ends FAILED has a child
\* not run by the serial runner that ended FAILED.
C34_SerialNeverFails ==
    /\ \A p \in Paths : (RunsSequential(p) /\ pc[p] = "done") => tres[p] = PASSED
    /\ \A q \in Paths : \A i \in 1..(NKids(q) - 1) :
         (/\ RunsSequential(q)
          /\ RunsSequential(Kid(q, i))
          /\ Kind(Kid(q, i + 1)) = "list"
          /\ Past(q, i + 1)) => pc[Kid(q, i + 1)] = "done"
    /\ \A p \in ParallelGroups :
         Signalled(p) => \E c \in Kids(p) : ~RunsSequential(c) /\ tres[c] = FAILED

\* Witness of C34: a list that holds a FAILED test case has ended, and the
\* list that directly follows it has been run.
C34_Witness ==
    \E q \in Paths : \E i \in 1..(NKids(q) - 1) :
        /\ Kind(q) = "list" /\ Kind(Kid(q, i)) = "list" /\ Kind(Kid(q, i + 1)) = "list"
        /\ HoldsFailure(Kid(q, i))
        /\ pc[Kid(q, i)] = "done" /\ tres[Kid(q, i)] = PASSED
        /\ pc[Kid(q, i + 1)] = "done"
        /\ \E l \in LeavesIn(Kid(q, i + 1)) : calls[l].run = 1

\* Element i of the serially run group q ended FAILED and its loop has gone
\* past element i + 2.
TwoAfterFailure(q, i) ==
    /\ RunsSequential(q)
    /\ i + 2 <= NKids(q)
    /\ EndedFailed(q, i)
    /\ PastElement(q, i + 2)

\* C35: the skip after a FAILED element reaches only the next element.  In
\* a serially run group, when an element ended FAILED and the two elements
\* after it are lists, the first is passed over (no thread is created for it)
\* and the second is run (its thread is started and ends); when the element
\* after it is a test case whose thread does not end FAILED, a list that
\* follows that test case is run.
C35_OnlyNext ==
    \A q \in Paths : \A i \in 1..NKids(q) :
        (CurrentCall(q) /\ TwoAfterFailure(q, i) /\ Kind(Kid(q, i + 2)) = "list") =>
            /\ Kind(Kid(q, i + 1)) = "list" =>
                 /\ pc[Kid(q, i + 1)] = "new"
                 /\ \A l \in LeavesIn(Kid(q, i + 1)) : calls[l] = NoCalls
                 /\ pc[Kid(q, i + 2)] = "done"
            /\ (/\ Kind(Kid(q, i + 1)) = "test"
                /\ tres[Kid(q, i + 1)] # FAILED) =>
                 /\ pc[Kid(q, i + 1)] = "done"
                 /\ pc[Kid(q, i + 2)] = "done"

\* Witness of C35: after a FAILED test case, a list was passed over and the
\* list after it has run a test case.
C35_Witness ==
    \E q \in Paths :
        /\ Kind(q) = "list" /\ NKids(q) = 3
        /\ Kind(Kid(q, 1)) = "test" /\ tc[Kid(q, 1)].result = FAILED
        /\ TwoAfterFailure(q, 1)
        /\ Kind(Kid(q, 2)) = "list" /\ pc[Kid(q, 2)] = "new"
        /\ Kind(Kid(q, 3)) = "list" /\ pc[Kid(q, 3)] = "done"

\* After a FAILED test case, a test case that did not fail was run and the
\* list after it has run its test cases.
C35_AfterTest ==
    \E q \in Paths :
        /\ Kind(q) = "list" /\ NKids(q) = 3
        /\ Kind(Kid(q, 1)) = "test" /\ tc[Kid(q, 1)].result = FAILED
        /\ TwoAfterFailure(q, 1)
        /\ Kind(Kid(q, 2)) = "test" /\ tc[Kid(q, 2)].result = PASSED
        /\ Kind(Kid(q, 3)) = "list" /\ pc[Kid(q, 3)] = "done"
        /\ \E l \in LeavesIn(Kid(q, 3)) : calls[l].run = 1

\* ------------------------------------------------------- a raising teardown
\* The teardown of test case l, whose outcome run_test is recording, raised
\* an ordinary error.
TeardownFailed(l) == loc[l].td.type = OtherException

\* C36: when the teardown of a test case raises an ordinary error, run_test
\* records the result FAILED with the text of that error and sets the failure
\* latch, whatever run() did before: returned, raised an error, raised the
\* skip signal, or raised the XPASSED or XFAILED signal of xfail.
C36_TeardownFails ==
    [][\A l \in Leaves :
          (Records(l) /\ TeardownFailed(l)) =>
              /\ tc'[l].result = FAILED
              /\ tc'[l].message = loc[l].td.text
              /\ sq'.run_failed]_vars

\* Witness of C36: run() was decorated with xfail and its body returned (the
\* XPASSED signal), teardown raised an error, and the test case ended FAILED
\* with the latch set.
C36_Witness ==
    \E l \in Leaves :
        /\ pc[l] = "exit"
        /\ TeardownFailed(l)
        /\ calls[l].run = 1
        /\ loc[l].wrapped /\ loc[l].body = NoExc
        /\ tc[l].result = FAILED
        /\ sq.run_failed

\* run() raised the skip signal, teardown raised an error, and the test case
\* ended FAILED with the latch set.
C36_AfterSkip ==
    \E l \in Leaves :
        /\ pc[l] = "exit"
        /\ TeardownFailed(l)
        /\ ~loc[l].wrapped /\ loc[l].body.type = TestCaseSkippedError
        /\ tc[l].result = FAILED
        /\ sq.run_failed

\* run() returned, teardown raised an error, and the test case ended FAILED.
C36_AfterReturn ==
    \E l \in Leaves :
        /\ pc[l] = "exit"
        /\ TeardownFailed(l)
        /\ ~loc[l].wrapped /\ loc[l].body = NoExc
        /\ tc[l].result = FAILED
        /\ sq.run_failed

\* ------------------------------------------------ the skip-by-failure message
\* Test case l of the latest call carries the skip-by-failure outcome.
CarriesSkipByFailure(l) ==
    /\ CurrentCall(l)
    /\ tc[l].result = SKIPPED
    /\ tc[l].message = SkippedByFailure

\* C37: when run() has returned, a test case of that call has result SKIPPED
\* with the skip-by-failure message only if the call was made with
\* continue_on_failure false and a test case of the same call ended FAILED.
C37_SkippedByFailure ==
    (phase = "idle" /\ ncall >= 1) =>
        \A l \in Leaves :
            CarriesSkipByFailure(l) =>
                /\ ~sq.continue_on_failure
                /\ \E f \in Leaves : CurrentCall(f) /\ pc[f] = "done" /\ tc[f].result = FAILED

\* The same for programs that submit no test case instance twice, and at
\* every moment of the call rather than only at its return.
C37_WithoutReuse ==
    NoReuse =>
        \A l \in Leaves :
            (CarriesSkipByFailure(l) /\ pc[l] \in {"exit", "done"}) =>
                /\ ~sq.continue_on_failure
                /\ \E f \in Leaves : HasFailed(f)

\* A call made with continue_on_failure true has returned, and a test case of
\* that call, which lies in a list that was passed over, carries the
\* skip-by-failure outcome that an earlier call left on the instance.
C37_Stale ==
    /\ phase = "idle" /\ ncall = 2
    /\ sq.continue_on_failure
    /\ \E l \in Leaves :
         /\ CarriesSkipByFailure(l)
         /\ InSkippedList(l)
         /\ pc[l] = "new"
         /\ ~Sole(l)

\* Without reuse: a call with continue_on_failure false has returned with a
\* FAILED test case and one skipped because of it.
C37_Skipped ==
    /\ phase = "idle" /\ ncall >= 1
    /\ NoReuse
    /\ ~sq.continue_on_failure
    /\ \E l, f \in Leaves :
         /\ CarriesSkipByFailure(l) /\ calls[l] = NoCalls
         /\ HasFailed(f)

\* ------------------------------------------------------------- determinism
\* What a test case that was set up ends with, from what its own setup, run
\* and teardown did: the exception that leaves run_test_normal, classified.
OwnException(o) ==
    IF o.setup # NoExc THEN o.setup
    ELSE IF o.td.type \notin {None, NotCalled.type} THEN o.td
    ELSE IF o.wrapped THEN xfail(o.body) ELSE o.body

\* The outcome that run_test has recorded for test case l is the one its own
\* behaviour determines: in dry-run mode PASSED if dry_run() returned (and
\* nothing if it raised); otherwise SKIPPED by the filter if its name does
\* not match, and else it was set up and has the result of its own setup, run
\* and teardown.
OwnOutcome(l) ==
    IF cfg.dry_run
    THEN /\ calls[l].dry_run = 1
         /\ IF loc[l].et = Unbound THEN tc[l].result = None ELSE tc[l].result = PASSED
    ELSE IF ~is_testcase_enabled(cfg.testcase_pattern, tc[l].name)
    THEN tc[l].result = SKIPPED /\ tc[l].message = DisabledByFilter /\ calls[l] = NoCalls
    ELSE /\ calls[l].setup = 1
         /\ tc[l].result = ResultFor(OwnException(loc[l]).type)

\* The thread of the finished node p ended with the result that the results
\* below it determine.
OwnThreadResult(p) ==
    IF Kind(p) = "test"
    THEN Sole(p) => (tres[p] = FAILED <=> tc[p].result \notin Results \ {FAILED})
    ELSE IF RunsSequential(p) THEN tres[p] = PASSED
    ELSE tres[p] = FAILED <=> \E c \in Kids(p) : tres[c] = FAILED

\* Element j of the finished group p was started or not as the structure and
\* the result of the element before it determine.
OwnDispatch(p, j) ==
    IF /\ RunsSequential(p) /\ j > 1 /\ Kind(Kid(p, j)) = "list"
       /\ pc[Kid(p, j - 1)] = "done" /\ tres[Kid(p, j - 1)] = FAILED
    THEN \A q \in Paths : IsPrefix(Kid(p, j), q) => pc[q] = "new"
    ELSE pc[Kid(p, j)] = "done"

\* C38: with continue_on_failure true the final result of every test case is
\* fixed by the structure, the filter and the test case's own outcome, under
\* every interleaving: the result a test case records is the one its own
\* setup, run and teardown determine; every finished thread has the result
\* that the results below it determine; and whether an element of a finished
\* group was started is determined by its kind and the result of the element
\* before it.
C38_Deterministic ==
    sq.continue_on_failure =>
        /\ \A l \in Leaves : (CurrentCall(l) /\ pc[l] = "exit" /\ Sole(l)) => OwnOutcome(l)
        /\ \A p \in Paths :
             (CurrentCall(p) /\ pc[p] = "done") =>
                 /\ OwnThreadResult(p)
                 /\ \A j \in 1..NKids(p) : OwnDispatch(p, j)

\* Witness of C38: with continue_on_failure true, a tuple run in parallel has
\* ended with a child that FAILED and another child that was set up and
\* PASSED.
C38_Witness ==
    /\ sq.continue_on_failure
    /\ ~cfg.dry_run /\ ~cfg.force_serial_execution
    /\ \E p \in ParallelGroups : \E c, d \in Kids(p) :
         /\ CurrentCall(p) /\ pc[p] = "done"
         /\ Kind(c) = "test" /\ Kind(d) = "test"
         /\ tc[c].result = FAILED
         /\ tc[d].result = PASSED /\ calls[d].setup = 1

\* ------------------------------------------------------- the longest path
\* The largest element of a non-empty set of numbers.
Largest(S) == CHOOSE x \in S : \A y \in S : y <= x
\* The edges that enter, and that leave, the object with identity i.
EdgesInto(i) == {e \in DOMAIN dg.edges : e[2] = i}
EdgesFrom(i) == {e \in DOMAIN dg.edges : e[1] = i}

\* The sums of execution_time over the nodes of the paths of edges from begin
\* to i that have at most fuel edges: the lengths of those paths.
RECURSIVE PathLengths(_, _)
PathLengths(i, fuel) ==
    IF i = BeginId THEN {Node(BeginId).finish_time}
    ELSE IF fuel = 0 THEN {}
    ELSE {n + Node(i).execution_time :
             n \in UNION {PathLengths(e[1], fuel - 1) : e \in EdgesInto(i)}}

\* The length of the chain of start_parents from i back to begin, if the
\* chain reaches begin.
RECURSIVE ChainLengths(_, _)
ChainLengths(i, fuel) ==
    IF i = BeginId THEN {Node(BeginId).finish_time}
    ELSE IF fuel = 0 \/ Node(i).start_parent = NoParent THEN {}
    ELSE {n + Node(i).execution_time : n \in ChainLengths(Node(i).start_parent, fuel - 1)}

\* C32: after dot_digraph() has returned, the finish_time of end is the
\* largest sum of execution_time over the nodes of a path of edges from begin
\* to end; the path of bold edges, the chain of start_parents from end, has
\* that sum; and along every edge the test finishes no earlier than the parent.
C32_LongestPath ==
    GraphBuilt =>
        /\ PathLengths(EndId, ChainLength) # {}
        /\ dg.end.finish_time = Largest(PathLengths(EndId, ChainLength))
        /\ ChainLengths(EndId, ChainLength) = {dg.end.finish_time}
        /\ CriticalPath \subseteq BoldEdges
        /\ \A e \in DOMAIN dg.edges : Node(e[1]).finish_time <= Node(e[2]).finish_time

\* C32 for sequences in which no test case instance is submitted twice.
C32_WithoutReuse == NoReuse => C32_LongestPath

\* Witness of the failure of C32: the graph is built, end has a positive
\* finish_time, and no path of edges leads from begin to end.
C32_NoPath ==
    /\ GraphBuilt
    /\ dg.end.finish_time > Node(BeginId).finish_time
    /\ PathLengths(EndId, ChainLength) = {}
    /\ EdgesFrom(BeginId) = {}

\* Without reuse: after the tuple of 1.4, 3.2 and 0.1 and the test case that
\* follows it, end finishes at 3.2 plus that test case's time, the longest
\* of three paths.
C32_Longest ==
    /\ GraphBuilt
    /\ prog = CriticalPathScenario /\ cfg.dry_run
    /\ dg.end.finish_time = WorkTime["Work32"] + tc[<<1, 2>>].execution_time
    /\ Cardinality(PathLengths(EndId, ChainLength)) = Len(prog[1].kids[1].kids)
    /\ dg.end.finish_time = Largest(PathLengths(EndId, ChainLength))

\* ------------------------------------------------------------------ the DAG
\* The nodes of the edge set: the objects some edge leaves or enters.
EdgeNodes == {e[1] : e \in DOMAIN dg.edges} \cup {e[2] : e \in DOMAIN dg.edges}

\* The objects from which a path of at least one edge leads into S.
RECURSIVE Ancestors(_, _)
Ancestors(S, fuel) ==
    LET more == S \cup {e[1] : e \in {d \in DOMAIN dg.edges : d[2] \in S}}
    IN IF fuel = 0 \/ more = S THEN S ELSE Ancestors(more, fuel - 1)
StrictAncestors(i) == Ancestors({e[1] : e \in EdgesInto(i)}, ChainLength)

\* C33: the edges built by dot_digraph() form a directed acyclic graph in
\* which begin is the only node that no edge enters and end the only node
\* that no edge leaves; the walk back from end names every edge once, and
\* every edge lies on a path to end.
C33_Dag ==
    GraphBuilt =>
        /\ \A i \in EdgeNodes : i \notin StrictAncestors(i)
        /\ {i \in EdgeNodes \cup {BeginId} : EdgesInto(i) = {}} = {BeginId}
        /\ {i \in EdgeNodes \cup {EndId} : EdgesFrom(i) = {}} = {EndId}
        /\ BeginId \in EdgeNodes /\ EndId \in EdgeNodes
        /\ ExecutedIds \subseteq EdgeNodes
        /\ \A e \in DOMAIN dg.edges : e[2] \in Ancestors({EndId}, ChainLength)

\* C33 for sequences in which no test case instance is submitted twice.
C33_WithoutReuse == NoReuse => C33_Dag

\* Witness of the failure of C33: the graph is built and has an edge from a
\* test case to itself, and begin is not a node of it.
C33_Cycle ==
    /\ GraphBuilt
    /\ \E e \in DOMAIN dg.edges : e[1] = e[2]
    /\ BeginId \notin EdgeNodes

\* Without reuse: a graph with at least as many edges as nodes, in which a
\* test case has two parents.
C33_Shared ==
    /\ GraphBuilt /\ NoReuse
    /\ Cardinality(DOMAIN dg.edges) >= Cardinality(EdgeNodes)
    /\ \E i \in EdgeNodes : Cardinality(EdgesInto(i)) = 2

\* ------------------------------------------------------ exclusive execution
\* An execution attempt of test case position l is in progress: its thread is
\* inside run_test and has not yet recorded the outcome.
InProgress(l) == pc[l] \in {"setup", "run", "teardown", "complete"}

\* C39: no two execution attempts of one test case instance are in progress
\* at the same time.
C39_Exclusive ==
    \A l, m \in Leaves :
        (l # m /\ SameInstance(l, m)) => ~(InProgress(l) /\ InProgress(m))

\* The same when every tuple is run by the serial runner.
C39_ForcedSerial == cfg.force_serial_execution => C39_Exclusive

\* Witness of the failure of C39: two threads have both called run() of the
\* same instance and neither has called its teardown().
C39_Concurrent ==
    \E l, m \in Leaves :
        /\ l # m /\ SameInstance(l, m)
        /\ pc[l] = "teardown" /\ pc[m] = "teardown"
        /\ calls[l].run = 1 /\ calls[m].run = 1
        /\ calls[l].teardown = 0 /\ calls[m].teardown = 0

\* -------------------------------------------------------------- the report
\* The test cases of self.tests in depth-first order of the submitted
\* structure, call after call.
RECURSIVE DepthFirst(_)
DepthFirst(p) ==
    IF Kind(p) = "test" THEN <<p>>
    ELSE LET from[k \in 1..(NKids(p) + 1)] ==
                 IF k > NKids(p) THEN <<>> ELSE DepthFirst(Kid(p, k)) \o from[k + 1]
         IN from[1]
RECURSIVE SubmissionOrder(_)
SubmissionOrder(k) ==
    IF k > ncall THEN <<>> ELSE DepthFirst(Root(k)) \o SubmissionOrder(k + 1)

\* report_and_exit() has written the report.
Reported == rpt.status # "none"

\* C31: the testcases of summary_json, as report_and_exit() writes them, are
\* one entry per submitted leaf test case of all run() calls, in depth-first
\* submission order; entry k has the name, the result and (exactly when it
\* is set) the message of the k-th test case, and SKIPPED as result if the
\* test case's result is unset.
C31_Report ==
    Reported =>
        LET order == SubmissionOrder(1)
        IN /\ Len(rpt.testcases) = Len(order)
           /\ Len(order) = Cardinality({l \in Leaves : Head(l) <= ncall})
           /\ \A k \in 1..Len(order) :
                LET e == rpt.testcases[k]
                    t == tc[order[k]]
                IN /\ e.name = t.name
                   /\ e.result = (IF t.result = None THEN SKIPPED ELSE t.result)
                   /\ e.result \in Results
                   /\ ("message" \in DOMAIN e) <=> (t.message # None)
                   /\ t.message # None => e.message = t.message

\* Witness of C31: the report holds, in this order, a FAILED entry with its
\* message, the entry of a test case in a passed-over list, with result
\* SKIPPED and no message although the test case's result is unset, and a
\* PASSED entry.
C31_Witness ==
    /\ Reported
    /\ \E i, j, k \in 1..Len(rpt.testcases) :
         /\ i < j /\ j < k
         /\ rpt.testcases[i].result = FAILED /\ rpt.testcases[i].message = UserText
         /\ rpt.testcases[j].result = SKIPPED /\ "message" \notin DOMAIN rpt.testcases[j]
         /\ tc[SubmissionOrder(1)[j]].result = None
         /\ rpt.testcases[k].result = PASSED

\* ----------------------------------------------------------- the exit code
\* report_and_exit() has chosen an exit code and called sys.exit.
Exited == rpt.status = "exit"

\* C40: the exit code chosen by report_and_exit() is 1 if the cumulative
\* tally, as the last run() call returned it, has failed > 0, and 0 otherwise.
C40_ExitCode ==
    Exited =>
        /\ rpt.exit_code \in {0, 1}
        /\ rpt.exit_code = 1 <=> rets[ncall].failed > 0

\* The same after a single run() call in which no test case instance is
\* submitted twice.
C40_SingleCall == (ncall = 1 /\ NoReuse) => C40_ExitCode

\* Witness of the failure of C40: after two run() calls the tally has
\* failed > 0, from the first call, and report_and_exit() exits with 0.
C40_ExitZero ==
    /\ Exited
    /\ ncall = 2
    /\ rets[1].failed > 0
    /\ rets[2].failed > 0
    /\ summary_count.failed > 0
    /\ rpt.exit_code = 0

\* After a single call with a FAILED test case report_and_exit() exits with 1.
C40_ExitOne ==
    /\ Exited
    /\ ncall = 1 /\ NoReuse
    /\ rets[1].failed > 0
    /\ rpt.exit_code = 1

====
